---- MODULE Spec2Model ----
(***************************************************************************)
(* A model of the passive-open side of the TCP stack                       *)
(* (protocols/tcp/passive_open.rs, protocols/tcp/isn_generator.rs) and of  *)
(* the IPv4 header codec (protocols/ipv4/datagram.rs).                     *)
(*                                                                         *)
(* 32-bit quantities (sequence numbers, the CRC32 hash, the nonce) are     *)
(* pairs <<hi, lo>> of 16-bit halves, since the model checker's integers   *)
(* are 32-bit signed.                                                      *)
(***************************************************************************)
EXTENDS Integers, Sequences, FiniteSets, TLC

(***************************************************************************)
(* Bounds and configuration values of the model.                           *)
(***************************************************************************)
\* Number of IsnGenerator::generate calls explored in one behaviour.
MaxIsnCalls == 2
\* max_backlog handed to PassiveSocket::new.
MaxBacklog == 1
\* TcpConfig::get_handshake_retries().
HandshakeRetries == 2
\* TcpConfig::get_handshake_timeout(), in clock ticks.
HandshakeTimeout == 1
\* TcpConfig::get_window_scale().
WindowScale == 0
\* TcpConfig::get_receive_window_size().
ReceiveWindowSize == 1024
\* constants::FALLBACK_MSS.
FALLBACK_MSS == 536

(***************************************************************************)
(* 16- and 32-bit arithmetic.                                              *)
(***************************************************************************)
Two16 == 2^16

U32(hi, lo) == <<hi, lo>>

\* Wrapping addition of a small non-negative integer to a 32-bit value.
WrappingAdd(a, n) ==
    LET lo == a[2] + n
        hi == a[1] + (lo \div Two16)
    IN  U32(hi % Two16, lo % Two16)

\* Whether a + n does not fit in 32 bits.
AddOverflows(a, n) == a[1] + ((a[2] + n) \div Two16) >= Two16

\* Bit i of a XOR b.
XorBit(a, b, i) == (((a \div (2^i)) + (b \div (2^i))) % 2) * (2^i)

\* a XOR b for 16-bit a and b.
Xor(a, b) ==
    XorBit(a, b, 0) + XorBit(a, b, 1) + XorBit(a, b, 2) + XorBit(a, b, 3)
    + XorBit(a, b, 4) + XorBit(a, b, 5) + XorBit(a, b, 6) + XorBit(a, b, 7)
    + XorBit(a, b, 8) + XorBit(a, b, 9) + XorBit(a, b, 10) + XorBit(a, b, 11)
    + XorBit(a, b, 12) + XorBit(a, b, 13) + XorBit(a, b, 14) + XorBit(a, b, 15)

Xor32(a, b) == U32(Xor(a[1], b[1]), Xor(a[2], b[2]))

Shr1(a) == U32(a[1] \div 2, (a[1] % 2) * (Two16 \div 2) + (a[2] \div 2))

\* Little-endian bytes of a 16-bit and of a 32-bit value (Hasher::write_u16 and
\* write_u32 feed to_ne_bytes; the model is of a little-endian target).
Bytes16(v) == <<v % 256, v \div 256>>
Bytes32(a) == Bytes16(a[2]) \o Bytes16(a[1])

(***************************************************************************)
(* CRC-32 (IEEE), reflected, as crc32::Digest::new(crc32::IEEE) computes.  *)
(***************************************************************************)
Crc32Poly == U32(60856, 33568)  \* 0xEDB88320

\* One bit of the table's construction: shift right, folding the polynomial in when
\* the bit shifted out is set.
CrcStep(crc) == IF crc[2] % 2 = 1 THEN Xor32(Shr1(crc), Crc32Poly) ELSE Shr1(crc)

\* n such steps.  (Each intermediate value is computed before the next step: the
\* sets of one element below are there to fix the order of evaluation.)
RECURSIVE CrcBits(_, _)
CrcBits(crc, n) ==
    IF n = 0 THEN crc
    ELSE CHOOSE r \in {CrcBits(v, m) : v \in {CrcStep(crc)}, m \in {n - 1}} : TRUE

\* The byte table crc32::make_table builds for the polynomial.
CrcTable == [b \in 0..255 |-> CrcBits(U32(0, b), 8)]

Shr8(a) == U32(a[1] \div 256, (a[1] % 256) * 256 + (a[2] \div 256))

\* One byte of crc32::update: (acc >> 8) ^ table[(acc as u8) ^ x].
CrcByte(acc, x) == Xor32(Shr8(acc), CrcTable[Xor(acc[2] % 256, x)])

\* The fold of crc32::update over bytes[i..].
RECURSIVE CrcBytes(_, _, _)
CrcBytes(acc, bytes, i) ==
    IF i > Len(bytes) THEN acc
    ELSE CHOOSE r \in {CrcBytes(v, bytes, j) : v \in {CrcByte(acc, bytes[i])},
                                             j \in {i + 1}} : TRUE

Ones32 == U32(Two16 - 1, Two16 - 1)

\* Digest::sum32 of a digest fed `bytes`: the running value starts at 0 and each
\* update complements it before and after folding the bytes in.
Crc32(bytes) == Xor32(CrcBytes(Ones32, bytes, 1), Ones32)

(***************************************************************************)
(* Endpoints.                                                              *)
(***************************************************************************)
Ipv4Endpoint(addr, port) == [addr |-> addr, port |-> port]

\* 192.168.1.1, 192.168.1.2 and 192.168.1.3.
ALICE_IPV4 == U32(192 * 256 + 168, 1 * 256 + 1)
BOB_IPV4 == U32(192 * 256 + 168, 1 * 256 + 2)
CARRIE_IPV4 == U32(192 * 256 + 168, 1 * 256 + 3)

\* The endpoint the passive socket listens on.
Local == Ipv4Endpoint(ALICE_IPV4, 12100)

\* The remote endpoints segments arrive from.
Remotes == { Ipv4Endpoint(BOB_IPV4, 12101), Ipv4Endpoint(CARRIE_IPV4, 12101) }

\* Nonces the RNG may hand to PassiveSocket::new.  With 0x23D75EB9 the hash of
\* Bob's endpoint is 0xFFFFFFFF.
Nonces == { U32(9175, 24249) }

(***************************************************************************)
(* TCP headers handed to PassiveSocket::receive.  Only the fields receive  *)
(* reads are kept.  options is the list iter_options walks.                *)
(***************************************************************************)
WindowScaleOpt(w) == [kind |-> "WindowScale", val |-> w]
MaximumSegmentSizeOpt(m) == [kind |-> "MaximumSegmentSize", val |-> m]

TcpHeader(syn, ack, rst, seq_num, ack_num, window_size, options) ==
    [syn |-> syn, ack |-> ack, rst |-> rst, seq_num |-> seq_num,
     ack_num |-> ack_num, window_size |-> window_size, options |-> options]

NoHeader == TcpHeader(FALSE, FALSE, FALSE, U32(0, 0), U32(0, 0), 0, <<>>)

\* The SYN segments peers send: a bare SYN, a SYN with the largest window, MSS and
\* window scale 2 and the largest sequence number, and a SYN with window scale 16.
SynHeaders ==
    { TcpHeader(TRUE, FALSE, FALSE, U32(0, 0), U32(0, 0), 1024, <<>>),
      TcpHeader(TRUE, FALSE, FALSE, Ones32, U32(0, 0), Two16 - 1,
                <<MaximumSegmentSizeOpt(1460), WindowScaleOpt(2)>>),
      TcpHeader(TRUE, FALSE, FALSE, U32(0, 7), U32(0, 0), 1024,
                <<WindowScaleOpt(16)>>) }

\* Segments without SYN alone: ACK, SYN+ACK, RST+ACK and a segment without flags,
\* acknowledging `ack_num`.
OtherHeaders(ack_num) ==
    { TcpHeader(FALSE, TRUE, FALSE, U32(0, 1), ack_num, 1024, <<>>),
      TcpHeader(TRUE, TRUE, FALSE, U32(0, 0), ack_num, 1024, <<>>),
      TcpHeader(FALSE, TRUE, TRUE, U32(0, 1), ack_num, 1024, <<>>),
      TcpHeader(FALSE, FALSE, FALSE, U32(0, 1), ack_num, 1024, <<>>) }

(***************************************************************************)
(* State.                                                                  *)
(***************************************************************************)
VARIABLES
    inflight,         \* PassiveSocket::inflight: a set of <<key, InflightAccept>>
    ready,            \* PassiveSocket::ready: the ReadySockets struct
    isn_generator,    \* PassiveSocket::isn_generator: [nonce, counter]
    tasks,            \* the SYN-ACK retry task spawned for each remote endpoint
    woken,            \* whether the waker taken from ReadySockets has been woken
    panicked,         \* whether a call has aborted (a failed expect or assert)
    wrapped,          \* whether a u32 addition has wrapped: the build does not trap
    isn_calls,        \* number of generate calls so far
    last,             \* the last call: its operation, inputs and result
    ip,               \* the IPv4 codec's input and output (see below)
    established,      \* the EstablishedSocket of each remote endpoint (see below)
    client,           \* the peer that opens the connection actively (see below)
    wire,             \* the segments in transit between the two stacks
    app               \* the application on top of the passive side

vars ==
    <<inflight, ready, isn_generator, tasks, woken, panicked, wrapped,
      isn_calls, last, ip, established, client, wire, app>>

\* What lies outside the passive socket and the IPv4 codec.
est_vars == <<established, client, wire, app>>

socket_vars ==
    <<inflight, ready, isn_generator, tasks, woken, panicked, wrapped,
      isn_calls, last>>

max_backlog == MaxBacklog
handshake_retries == HandshakeRetries
handshake_timeout == HandshakeTimeout

(***************************************************************************)
(* IsnGenerator.                                                           *)
(***************************************************************************)
IsnGeneratorNew(nonce) == [nonce |-> nonce, counter |-> 0]

\* The bytes hash.write_u32/write_u16 feed the digest: remote address, remote port,
\* local address, local port, nonce.
IsnHashInput(nonce, local, remote) ==
    Bytes32(remote.addr) \o Bytes16(remote.port) \o Bytes32(local.addr)
        \o Bytes16(local.port) \o Bytes32(nonce)

\* hash.sum32() for every nonce and remote endpoint of the model.
IsnHashes ==
    [n \in Nonces |-> [r \in Remotes |-> Crc32(IsnHashInput(n, Local, r))]]

IsnHash(gen, remote) == IsnHashes[gen.nonce][remote]

\* hash + self.counter.0 as u32: a plain u32 addition, which traps in a build with
\* overflow checks and wraps otherwise.
GenerateOverflows(gen, remote) == AddOverflows(IsnHash(gen, remote), gen.counter)

GenerateIsn(gen, remote) == WrappingAdd(IsnHash(gen, remote), gen.counter)

\* self.counter += Wrapping(1) on a Wrapping<u16>.
GenerateNext(gen) == [gen EXCEPT !.counter = (@ + 1) % Two16]

(***************************************************************************)
(* ReadySockets.                                                           *)
(***************************************************************************)
OkEntry(cb) == [tag |-> "Ok", cb |-> cb]
ErrEntry(errno) == [tag |-> "Err", errno |-> errno]
NoEntry == [tag |-> "None"]

ReadySocketsNew == [ready |-> <<>>, endpoints |-> {}, waker |-> "None"]

\* Each operation yields the struct after the call, whether it woke a waker, whether
\* its assertion failed, and what it returned.
push_ok(rs, cb) ==
    IF cb.remote \in rs.endpoints
    THEN [rs |-> rs, wake |-> FALSE, panic |-> TRUE]
    ELSE [rs |-> [ready |-> Append(rs.ready, OkEntry(cb)),
                  endpoints |-> rs.endpoints \cup {cb.remote},
                  waker |-> "None"],
          wake |-> rs.waker = "Some",
          panic |-> FALSE]

\* A faulty variant: the error is queued but the waker is left alone.
push_err_NoWake(rs, err) ==
    [rs |-> [rs EXCEPT !.ready = Append(@, ErrEntry(err))],
     wake |-> FALSE,
     panic |-> FALSE]

push_err(rs, err) ==
    [rs |-> [rs EXCEPT !.ready = Append(@, ErrEntry(err)), !.waker = "None"],
     wake |-> rs.waker = "Some",
     panic |-> FALSE]

\* A faulty variant: the endpoint of the control block taken stays in the set.
poll_KeepsEndpoint(rs) ==
    IF rs.ready = <<>>
    THEN [rs |-> [rs EXCEPT !.waker = "Some"], ret |-> NoEntry, panic |-> FALSE]
    ELSE [rs |-> [rs EXCEPT !.ready = Tail(@)], ret |-> Head(rs.ready), panic |-> FALSE]

poll(rs) ==
    IF rs.ready = <<>>
    THEN [rs |-> [rs EXCEPT !.waker = "Some"], ret |-> NoEntry, panic |-> FALSE]
    ELSE LET r == Head(rs.ready)
             popped == [rs EXCEPT !.ready = Tail(@)]
         IN  IF r.tag = "Ok"
             THEN IF r.cb.remote \in rs.endpoints
                  THEN [rs |-> [popped EXCEPT !.endpoints = @ \ {r.cb.remote}],
                        ret |-> r, panic |-> FALSE]
                  ELSE [rs |-> popped, ret |-> NoEntry, panic |-> TRUE]
             ELSE [rs |-> popped, ret |-> r, panic |-> FALSE]

len(rs) == Len(rs.ready)

(***************************************************************************)
(* The in-flight map (a HashMap keyed by remote endpoint).                 *)
(***************************************************************************)
Some(v) == [some |-> TRUE, val |-> v]
None == [some |-> FALSE, val |-> 0]

InflightAccept(li, ri, hws, rws, m, h) ==
    [local_isn |-> li, remote_isn |-> ri, header_window_size |-> hws,
     remote_window_scale |-> rws, mss |-> m, handle |-> h]

contains_key(map, key) == \E e \in map : e.key = key
get(map, key) == (CHOOSE e \in map : e.key = key).val
insert(map, key, val) == {e \in map : e.key # key} \cup {[key |-> key, val |-> val]}
\* A faulty variant: the entry is left in the map.
remove_Nothing(map, key) == map

remove(map, key) == {e \in map : e.key # key}

(***************************************************************************)
(* The SYN-ACK retry tasks.  pc is where the future of                     *)
(* PassiveSocket::background is suspended: "start" (spawned, not polled    *)
(* yet), "arp" (at arp.query), "wait" (at rt.wait), "done" (returned),     *)
(* "cancelled" (its SchedulerHandle was dropped), "none" (never spawned).  *)
(* i is the index of the loop iteration, timer the time left until         *)
(* handshake_timeout has passed since the last rt.wait began.  A future     *)
(* that has returned or has been dropped has no locals left.               *)
(***************************************************************************)
Task(pc, i, timer, li, ri) ==
    [pc |-> pc, i |-> i, timer |-> timer, local_isn |-> li, remote_isn |-> ri]

Finished(pc) == Task(pc, 0, 0, U32(0, 0), U32(0, 0))

NoTask == Finished("none")

Live(t) == t.pc \in {"start", "arp", "wait"}

\* A faulty variant: the task outlives its handle.
DropHandle_Detached(t) == t

\* Dropping the SchedulerHandle of a task removes it from the scheduler.
DropHandle(t) == IF Live(t) THEN Finished("cancelled") ELSE t

(***************************************************************************)
(* The control block PassiveSocket::receive builds.                        *)
(***************************************************************************)
ControlBlockNew(local, remote, receiver_seq_no, lws, lwscale, sender_seq_no, rws, rwscale, m) ==
    [local |-> local, remote |-> remote, receiver_seq_no |-> receiver_seq_no,
     local_window_size |-> lws, local_window_scale |-> lwscale,
     sender_seq_no |-> sender_seq_no, remote_window_size |-> rws,
     remote_window_scale |-> rwscale, mss |-> m]

(***************************************************************************)
(* The record of the last call: the operation, the remote endpoint it was *)
(* for, what it returned, the message of the error or the return statement *)
(* taken, and what it handed out (the entry poll_accept returned, the      *)
(* segment background transmitted).                                        *)
(***************************************************************************)
Call(op, remote, res, cause, out) ==
    [op |-> op, remote |-> remote, res |-> res, cause |-> cause, out |-> out]

NoRemote == Ipv4Endpoint(U32(0, 0), 0)

(***************************************************************************)
(* The IPv4 codec's part of the state while the socket runs.               *)
(***************************************************************************)
NoResult == [tag |-> "None"]

\* The codec is not in use.  buf holds the bytes written so far, n is the number of
\* payload bytes that follow them on the wire, hdr the header being serialized and
\* bit the header bit inverted on the wire.
IpIdle == [buf |-> <<>>, pc |-> "idle", res |-> NoResult, hdr |-> NoResult, n |-> 0, bit |-> -1]

(***************************************************************************)
(* No connection has been accepted, no peer is connecting, nothing is in   *)
(* transit and no application runs.                                        *)
(***************************************************************************)
NoSocket == [tag |-> "None"]

Idle == [pc |-> "idle"]

WireIdle == [to_server |-> <<>>, to_client |-> <<>>]

EstIdle ==
    /\ established = [r \in Remotes |-> NoSocket]
    /\ client = Idle
    /\ wire = WireIdle
    /\ app = Idle

(***************************************************************************)
(* Initial state: PassiveSocket::new.                                      *)
(***************************************************************************)
PassiveSocketNew ==
    /\ inflight = {}
    /\ ready = ReadySocketsNew
    /\ isn_generator \in {IsnGeneratorNew(n) : n \in Nonces}
    /\ tasks = [r \in Remotes |-> NoTask]
    /\ woken = FALSE
    /\ panicked = FALSE
    /\ wrapped = FALSE
    /\ isn_calls = 0
    /\ last = Call("new", NoRemote, "Ok", "", NoEntry)

Init ==
    /\ PassiveSocketNew
    /\ ip = IpIdle
    /\ EstIdle

(***************************************************************************)
(* PassiveSocket::poll_accept.                                             *)
(***************************************************************************)
PollAccept ==
    /\ ~panicked
    /\ LET p == poll(ready)
       IN  IF p.panic
           THEN /\ panicked' = TRUE
                /\ last' = Call("poll_accept", NoRemote, "panic", "assertion failed", NoEntry)
                /\ UNCHANGED <<ready, woken>>
           ELSE /\ ready' = p.rs
                /\ woken' = FALSE
                /\ last' = Call("poll_accept", NoRemote,
                                IF p.ret = NoEntry THEN "Pending" ELSE "Ready", "",
                                p.ret)
                /\ UNCHANGED panicked
    /\ UNCHANGED <<inflight, isn_generator, tasks, wrapped, isn_calls, ip>>

(***************************************************************************)
(* PassiveSocket::receive.                                                 *)
(***************************************************************************)
\* u16::checked_shl: None when the shift is 16 or more, else the low 16 bits.
CheckedShl16(v, n) == IF n >= 16 THEN None ELSE Some((v * 2^n) % Two16)

RECURSIVE Shl32(_, _)
Shl32(a, n) ==
    IF n = 0 THEN a
    ELSE Shl32(U32((2 * a[1] + ((2 * a[2]) \div Two16)) % Two16, (2 * a[2]) % Two16),
               n - 1)

\* u32::checked_shl: None when the shift is 32 or more, else the low 32 bits.
CheckedShl32(v, n) == IF n >= 32 THEN None ELSE Some(Shl32(U32(0, v), n))

\* A faulty variant: the ready-endpoint set is not consulted.
ReadyContains_Never(remote) == FALSE

ReadyContains(remote) == remote \in ready.endpoints

\* A faulty variant: the acknowledgement is compared with local_isn itself.
AckNumMatches_NoIncrement(header, local_isn) == header.ack_num = local_isn

AckNumMatches(header, local_isn) == header.ack_num = WrappingAdd(local_isn, 1)

\* A faulty variant: the two scales change places.
WindowScales_Swapped(remote_window_scale) ==
    IF remote_window_scale.some
    THEN <<remote_window_scale.val, WindowScale>>
    ELSE <<0, 0>>

\* (local_window_scale, remote_window_scale) of the match on the recorded option.
WindowScales(remote_window_scale) ==
    IF remote_window_scale.some
    THEN <<WindowScale, remote_window_scale.val>>
    ELSE <<0, 0>>

InvalidFlags(header) == ~header.syn \/ header.ack \/ header.rst

BacklogFull(inflight_len) == inflight_len + len(ready) >= max_backlog

\* The loop over header.iter_options(): the last option of each kind wins.
RECURSIVE ParseOptions(_, _)
ParseOptions(options, acc) ==
    IF options = <<>> THEN acc
    ELSE LET option == Head(options)
         IN  ParseOptions(
                 Tail(options),
                 IF option.kind = "WindowScale"
                 THEN [acc EXCEPT !.remote_window_scale = Some(option.val)]
                 ELSE IF option.kind = "MaximumSegmentSize"
                 THEN [acc EXCEPT !.mss = option.val]
                 ELSE acc)

Return(remote, res, cause) ==
    last' = Call("receive", remote, res, cause, NoEntry)

ReceivePanics(remote, cause) ==
    /\ panicked' = TRUE
    /\ Return(remote, "panic", cause)
    /\ UNCHANGED <<inflight, ready, isn_generator, tasks, woken, wrapped, isn_calls>>

\* A faulty variant: the in-flight entry of the remote endpoint is given up on an error.
ReceiveFails_DropsEntry(remote, errno, cause) ==
    /\ Return(remote, errno, cause)
    /\ inflight' = remove(inflight, remote)
    /\ UNCHANGED <<ready, isn_generator, tasks, woken, panicked, wrapped, isn_calls>>

ReceiveFails(remote, errno, cause) ==
    /\ Return(remote, errno, cause)
    /\ UNCHANGED <<inflight, ready, isn_generator, tasks, woken, panicked, wrapped,
                   isn_calls>>

\* A faulty variant: the receive sequence number is the peer's ISN itself.
HandshakeControlBlock_NoIncrement(remote, a, lws, lwscale, rws, rwscale) ==
    ControlBlockNew(Local, remote, a.remote_isn, lws, lwscale,
                    WrappingAdd(a.local_isn, 1), rws, rwscale, a.mss)

\* The control block of a completed handshake (lines 170-185).
HandshakeControlBlock(remote, a, lws, lwscale, rws, rwscale) ==
    ControlBlockNew(Local, remote, WrappingAdd(a.remote_isn, 1), lws, lwscale,
                    WrappingAdd(a.local_isn, 1), rws, rwscale, a.mss)

\* The packet is for an in-flight connection.
ReceiveInflight(remote, header) ==
    IF ~header.ack
    THEN ReceiveFails(remote, "EBADMSG", "expeting ACK")
    ELSE LET accept == get(inflight, remote)
             scales == WindowScales(accept.remote_window_scale)
             remote_window_size == CheckedShl16(accept.header_window_size, scales[2])
             local_window_size == CheckedShl32(ReceiveWindowSize, scales[1])
         IN  IF ~AckNumMatches(header, accept.local_isn)
             THEN ReceiveFails(remote, "EBADMSG", "invalid SYN+ACK seq num")
             ELSE IF ~remote_window_size.some \/ ~local_window_size.some
             THEN ReceivePanics(remote, "TODO: Window size overflow")
             ELSE LET cb == HandshakeControlBlock(
                                remote, accept, local_window_size.val, scales[1],
                                U32(0, remote_window_size.val), scales[2])
                      p == push_ok(ready, cb)
                  IN  /\ inflight' = remove(inflight, remote)
                      /\ tasks' = [tasks EXCEPT ![accept.handle] = DropHandle(@)]
                      /\ IF p.panic
                         THEN /\ panicked' = TRUE
                              /\ Return(remote, "panic", "assertion failed")
                              /\ UNCHANGED <<ready, woken>>
                         ELSE /\ ready' = p.rs
                              /\ woken' = (woken \/ p.wake)
                              /\ Return(remote, "Ok", "handshake completed")
                              /\ UNCHANGED panicked
                      /\ UNCHANGED <<isn_generator, wrapped, isn_calls>>

\* Otherwise, start a new connection.  The addition in IsnGenerator::generate
\* overflows into a panic in a build that traps overflow and wraps in one that does
\* not; once it has wrapped, the build is one that does not trap.
ReceiveNew(remote, header, inflight_len) ==
    IF InvalidFlags(header)
    THEN ReceiveFails(remote, "EBADMSG", "invalid flags")
    ELSE IF BacklogFull(inflight_len)
    THEN ReceiveFails(remote, "ECONNREFUSED", "connection refused")
    ELSE /\ isn_calls < MaxIsnCalls
         /\ \/ /\ GenerateOverflows(isn_generator, remote)
               /\ ~wrapped
               /\ ReceivePanics(remote, "attempt to add with overflow")
            \/ LET local_isn == GenerateIsn(isn_generator, remote)
                     remote_isn == header.seq_num
                     opts == ParseOptions(header.options,
                                          [remote_window_scale |-> None,
                                           mss |-> FALLBACK_MSS])
                     accept == InflightAccept(local_isn, remote_isn,
                                              header.window_size,
                                              opts.remote_window_scale, opts.mss,
                                              remote)
                 IN  /\ isn_generator' = GenerateNext(isn_generator)
                     /\ isn_calls' = isn_calls + 1
                     /\ tasks' = [tasks EXCEPT ![remote] =
                                      Task("start", 0, 0, local_isn, remote_isn)]
                     /\ inflight' = insert(inflight, remote, accept)
                     /\ wrapped' = (wrapped \/ GenerateOverflows(isn_generator, remote))
                     /\ Return(remote, "Ok", "new connection")
                     /\ UNCHANGED <<ready, woken, panicked>>

Receive(remote, header) ==
    /\ ~panicked
    /\ IF ReadyContains(remote)
       THEN /\ Return(remote, "Ok", "not accepted yet")
            /\ UNCHANGED <<inflight, ready, isn_generator, tasks, woken, panicked,
                           wrapped, isn_calls>>
       ELSE IF contains_key(inflight, remote)
       THEN ReceiveInflight(remote, header)
       ELSE ReceiveNew(remote, header, Cardinality(inflight))
    /\ UNCHANGED ip

\* The acknowledgement numbers a peer may send: the one the SYN+ACK asks for, and
\* the one before it.
AckNums(remote) ==
    IF contains_key(inflight, remote)
    THEN LET local_isn == get(inflight, remote).local_isn
         IN  {WrappingAdd(local_isn, 1), local_isn}
    ELSE {U32(0, 1)}

Headers(remote) ==
    SynHeaders \cup UNION {OtherHeaders(a) : a \in AckNums(remote)}

(***************************************************************************)
(* PassiveSocket::background: one poll of the retry task of `remote`, from *)
(* the suspension point it is at to the next.                              *)
(***************************************************************************)
AdvertisedMss == 1450

SynAck(local_isn, remote_isn) ==
    TcpHeader(TRUE, TRUE, FALSE, local_isn, WrappingAdd(remote_isn, 1),
              ReceiveWindowSize,
              <<MaximumSegmentSizeOpt(AdvertisedMss % Two16),
                WindowScaleOpt(WindowScale)>>)

\* A faulty variant: the range includes its upper end.
LoopContinues_Inclusive(i) == i <= handshake_retries

\* for _ in 0..handshake_retries
LoopContinues(i) == i < handshake_retries

\* rt.wait(handshake_timeout) has resolved.
WaitResolved(t) == t.timer = 0

\* The head of the loop with index i: the next iteration starts with the ARP query,
\* or the loop is over and the timeout error is pushed.
LoopHead(remote, t, i) ==
    IF LoopContinues(i)
    THEN /\ tasks' = [tasks EXCEPT ![remote] = [t EXCEPT !.pc = "arp", !.i = i]]
         /\ last' = Call("background", remote, "Pending", "", NoEntry)
         /\ UNCHANGED <<ready, woken>>
    ELSE LET p == push_err(ready, "ETIMEDOUT")
         IN  /\ tasks' = [tasks EXCEPT ![remote] = Finished("done")]
             /\ ready' = p.rs
             /\ woken' = (woken \/ p.wake)
             /\ last' = Call("background", remote, "Ready", "handshake timeout", NoEntry)

Background(remote) ==
    /\ ~panicked
    /\ LET t == tasks[remote]
       IN  \/ /\ t.pc = "start"
              /\ LoopHead(remote, t, 0)
           \/ /\ t.pc = "arp"  \* the ARP query resolved: transmit and wait
              /\ tasks' = [tasks EXCEPT ![remote] =
                               [t EXCEPT !.pc = "wait", !.timer = handshake_timeout]]
              /\ last' = Call("background", remote, "Pending", "transmit",
                              SynAck(t.local_isn, t.remote_isn))
              /\ UNCHANGED <<ready, woken>>
           \/ /\ t.pc = "arp"  \* the ARP query failed: continue
              /\ LoopHead(remote, t, t.i + 1)
           \/ /\ t.pc = "wait"
              /\ WaitResolved(t)
              /\ LoopHead(remote, t, t.i + 1)
    /\ UNCHANGED <<inflight, isn_generator, panicked, wrapped, isn_calls, ip>>

(***************************************************************************)
(* The clock advances by one tick.                                         *)
(***************************************************************************)
Tick ==
    /\ ~panicked
    /\ \E r \in Remotes : tasks[r].timer > 0
    /\ tasks' = [r \in Remotes |->
                     [tasks[r] EXCEPT !.timer = IF @ > 0 THEN @ - 1 ELSE 0]]
    /\ last' = Call("tick", NoRemote, "Ok", "", NoEntry)
    /\ UNCHANGED <<inflight, ready, isn_generator, woken, panicked, wrapped,
                   isn_calls, ip>>

Next ==
    \/ \E remote \in Remotes : \E header \in Headers(remote) :
           Receive(remote, header) /\ UNCHANGED est_vars
    \/ PollAccept /\ UNCHANGED est_vars
    \/ \E remote \in Remotes : Background(remote) /\ UNCHANGED est_vars
    \/ Tick /\ UNCHANGED est_vars

Spec == Init /\ [][Next]_vars

(***************************************************************************)
(* Properties of the passive socket.                                       *)
(***************************************************************************)
\* The remote endpoints with a control block in the ready queue.
ReadyRemotes ==
    {ready.ready[i].cb.remote : i \in {j \in DOMAIN ready.ready : ready.ready[j].tag = "Ok"}}

\* C1: the number of in-flight accepts plus the number of entries in the ready queue
\* never exceeds max_backlog.
C1_BacklogBound == Cardinality(inflight) + Len(ready.ready) <= max_backlog

\* C1: a handshake has timed out: its error is in the ready queue and its in-flight
\* entry is still there.
C1_TimedOutStillInflight ==
    /\ last.op = "background"
    /\ last.cause = "handshake timeout"
    /\ contains_key(inflight, last.remote)
    /\ Len(ready.ready) >= 1

\* C2: a SYN without ACK and RST from a remote endpoint that is neither in flight nor
\* ready is admitted exactly when the in-flight count plus the ready count is below
\* max_backlog, and is refused with ECONNREFUSED otherwise.
C2_BacklogRefusal ==
    [][\A r \in Remotes :
           (/\ last'.op = "receive" /\ last'.remote = r
            /\ ~contains_key(inflight, r)
            /\ r \notin ReadyRemotes)
           => \A h \in Headers(r) :
                  (h.syn /\ ~h.ack /\ ~h.rst /\ Receive(r, h))
                  => IF Cardinality(inflight) + Len(ready.ready) < max_backlog
                     THEN /\ last'.res = "Ok"
                          /\ contains_key(inflight', r)
                          /\ ready' = ready
                     ELSE /\ last'.res = "ECONNREFUSED"
                          /\ inflight' = inflight
                          /\ ready' = ready]_vars

\* C2: a SYN with room in the backlog has aborted in the ISN generator.
C2_AdmissionAborted ==
    /\ last.op = "receive"
    /\ last.res = "panic"
    /\ last.cause = "attempt to add with overflow"
    /\ Cardinality(inflight) + Len(ready.ready) < max_backlog

\* C3: a segment with ACK set and ack_num = local_isn + 1 for an in-flight remote
\* endpoint makes receive return Ok, removes the in-flight entry and appends exactly
\* one control block for that endpoint to the ready queue, with RCV.NXT =
\* remote_isn + 1 and SND.UNA = local_isn + 1.
C3_HandshakeCompletion ==
    [][\A r \in Remotes :
           (last'.op = "receive" /\ last'.remote = r /\ contains_key(inflight, r))
           => \A h \in Headers(r) :
                  (/\ h.ack
                   /\ h.ack_num = WrappingAdd(get(inflight, r).local_isn, 1)
                   /\ Receive(r, h))
                  => /\ last'.res = "Ok"
                     /\ ~contains_key(inflight', r)
                     /\ Len(ready'.ready) = Len(ready.ready) + 1
                     /\ SubSeq(ready'.ready, 1, Len(ready.ready)) = ready.ready
                     /\ LET e == ready'.ready[Len(ready'.ready)]
                            a == get(inflight, r)
                        IN  /\ e.tag = "Ok"
                            /\ e.cb.remote = r
                            /\ e.cb.receiver_seq_no = WrappingAdd(a.remote_isn, 1)
                            /\ e.cb.sender_seq_no = WrappingAdd(a.local_isn, 1)]_vars

\* C3: the handshake ACK of a remote endpoint whose SYN carried a window scale of 16
\* has aborted receive; the endpoint is still in flight.
C3_CompletionAborted ==
    /\ last.op = "receive"
    /\ last.res = "panic"
    /\ last.cause = "TODO: Window size overflow"
    /\ contains_key(inflight, last.remote)

\* C4: a segment with ACK set and ack_num other than local_isn + 1 for an in-flight
\* remote endpoint makes receive fail with EBADMSG; no control block is queued and
\* the connection stays in flight.
C4_BadHandshakeAck ==
    [][\A r \in Remotes :
           (last'.op = "receive" /\ last'.remote = r /\ contains_key(inflight, r))
           => \A h \in Headers(r) :
                  (/\ h.ack
                   /\ h.ack_num # WrappingAdd(get(inflight, r).local_isn, 1)
                   /\ Receive(r, h))
                  => /\ last'.res = "EBADMSG"
                     /\ ready' = ready
                     /\ inflight' = inflight
                     /\ tasks' = tasks]_vars

\* C4: receive has refused a handshake ACK with a wrong ack_num; the remote endpoint
\* is still in flight and the ready queue is empty.
C4_Witness ==
    /\ last.op = "receive"
    /\ last.res = "EBADMSG"
    /\ last.cause = "invalid SYN+ACK seq num"
    /\ contains_key(inflight, last.remote)
    /\ ready.ready = <<>>

C6_DuplicateSynDropped ==
    [][\A r \in ReadyRemotes :
           (last'.op = "receive" /\ last'.remote = r)
           => \A h \in Headers(r) :
                  (h.syn /\ Receive(r, h))
                  => /\ last'.res = "Ok"
                     /\ inflight' = inflight
                     /\ ready' = ready
                     /\ isn_generator' = isn_generator
                     /\ isn_calls' = isn_calls
                     /\ tasks' = tasks]_vars

\* C6: receive has returned Ok for a segment of a remote endpoint whose control
\* block waits in the ready queue; nothing is in flight.
C6_Witness ==
    /\ last.op = "receive"
    /\ last.res = "Ok"
    /\ last.cause = "not accepted yet"
    /\ last.remote \in ReadyRemotes
    /\ inflight = {}

\* C7: the retry task of an admitted SYN transmits SYN+ACK in loop iterations
\* 0 .. handshake_retries - 1 only, at most once in each (the index of the loop
\* never goes back), so at most handshake_retries times; until it has returned it
\* can go on (it is runnable, or the clock can advance); each transmission starts a
\* wait of handshake_timeout, and the task leaves the wait on its own only once that
\* time has passed; the task pushes one ETIMEDOUT error, in the step in which its
\* loop runs out, and then has returned for good.
C7_RetryAndTimeout ==
    /\ [](\A r \in Remotes :
             /\ tasks[r].pc = "arp" => tasks[r].timer = 0
             /\ (Live(tasks[r]) /\ ~panicked)
                    => (ENABLED Background(r)) \/ (tasks[r].timer > 0 /\ ENABLED Tick))
    /\ [][\A r \in Remotes :
             LET t == tasks[r]
                 u == tasks'[r]
                 transmitted == /\ last'.op = "background"
                                /\ last'.remote = r
                                /\ last'.cause = "transmit"
                 pushed == /\ Len(ready'.ready) = Len(ready.ready) + 1
                           /\ ready'.ready[Len(ready'.ready)] = ErrEntry("ETIMEDOUT")
                           /\ last'.op = "background"
                           /\ last'.remote = r
             IN  /\ transmitted => /\ t.pc = "arp"
                                   /\ t.i < handshake_retries
                                   /\ u.pc = "wait"
                                   /\ u.i = t.i
                                   /\ u.timer = handshake_timeout
                 /\ (Live(t) /\ u.pc = "arp" /\ u # t)
                        => (t.pc = "start" /\ u.i = 0) \/ u.i = t.i + 1
                 /\ (t.pc = "wait" /\ (u.pc = "arp" \/ u.pc = "done")) => t.timer = 0
                 /\ (t.pc # "done" /\ u.pc = "done")
                        => pushed /\ Live(t) /\ t.i + 1 >= handshake_retries
                 /\ pushed => (t.pc # "done" /\ u.pc = "done")
                 /\ (t.pc = "done" /\ u.pc # "done")
                        => last'.cause = "new connection"]_vars

\* C7: the loop of a retry task has run out and the task has returned; its timeout
\* error is the only entry of the ready queue.
C7_Witness ==
    /\ last.op = "background"
    /\ last.cause = "handshake timeout"
    /\ tasks[last.remote].pc = "done"
    /\ ready.ready = <<ErrEntry("ETIMEDOUT")>>
    /\ handshake_retries >= 2

\* C8: poll_accept returns the entries of the ready queue in the order they were
\* pushed; on an empty queue it returns Pending and registers the waker; every push
\* wakes the registered waker, and the entry it pushed is the one the next
\* poll_accept returns.
C8_AcceptQueueDelivery ==
    [][/\ \/ ready'.ready = ready.ready
          \/ /\ Len(ready'.ready) = Len(ready.ready) + 1
             /\ SubSeq(ready'.ready, 1, Len(ready.ready)) = ready.ready
          \/ /\ ready.ready # <<>>
             /\ ready'.ready = Tail(ready.ready)
             /\ last'.op = "poll_accept"
       /\ (last'.op = "poll_accept" /\ ready.ready # <<>>)
              => /\ last'.res = "Ready"
                 /\ last'.out = Head(ready.ready)
                 /\ ready'.ready = Tail(ready.ready)
       /\ (last'.op = "poll_accept" /\ ready.ready = <<>>)
              => /\ last'.res = "Pending"
                 /\ ready'.waker = "Some"
                 /\ ready'.ready = <<>>
       /\ (Len(ready'.ready) > Len(ready.ready) /\ ready.waker = "Some")
              => /\ woken'
                 /\ ready'.waker = "None"
                 /\ ready.ready = <<>>]_vars

\* C8: the push of a completed handshake has woken the waker that poll_accept
\* registered on the empty queue; the control block is the head of the queue.
C8_Witness ==
    /\ woken
    /\ last.cause = "handshake completed"
    /\ ready.waker = "None"
    /\ Len(ready.ready) = 1
    /\ Head(ready.ready).tag = "Ok"

(***************************************************************************)
(* The IPv4 header codec (protocols/ipv4/datagram.rs).  A buffer is a      *)
(* sequence of bytes; offsets are the code's zero-based ones.              *)
(***************************************************************************)
IPV4_DATAGRAM_MIN_SIZE == 20
IPV4_HEADER_MIN_SIZE == IPV4_DATAGRAM_MIN_SIZE
IPV4_IHL_NO_OPTIONS == IPV4_HEADER_MIN_SIZE \div 4
DEFAULT_IPV4_TTL == 255
IPV4_VERSION == 4

\* NetworkEndian::read_u16(&buf[at..at + 2])
ReadU16(buf, at) == buf[at + 1] * 256 + buf[at + 2]

\* NetworkEndian::read_u32(&buf[at..at + 4])
ReadU32(buf, at) == U32(ReadU16(buf, at), ReadU16(buf, at + 2))

\* NetworkEndian::write_u16
WriteU16(v) == <<v \div 256, v % 256>>

Fail(errno, cause) == [tag |-> "Err", errno |-> errno, cause |-> cause]

Panic(cause) == [tag |-> "panic", cause |-> cause]

\* A faulty variant: the carries are folded by a remainder, which takes a multiple
\* of 0xffff to 0.
FoldCarries_Remainder(state) == state % 65535

\* while state > 0xffff { state -= 0xffff; }
RECURSIVE FoldCarries(_)
FoldCarries(state) ==
    IF state > 65535 THEN FoldCarries(state - 65535) ELSE state

\* The sum of the 16-bit words i of buf with lo <= i < hi.
RECURSIVE SumWords(_, _, _)
SumWords(buf, lo, hi) ==
    IF lo >= hi THEN 0 ELSE ReadU16(buf, 2 * lo) + SumWords(buf, lo + 1, hi)

\* A faulty variant: the words behind the checksum field are left out of the sum.
compute_checksum_HalfHeader(buf) ==
    65535 - FoldCarries(65535 + SumWords(buf, 0, 5))

\* Ipv4Header::compute_checksum on a 20-byte header: !state as u16 keeps the low 16
\* bits of the complement.
compute_checksum(buf) ==
    LET state == 65535 + SumWords(buf, 0, 5) + SumWords(buf, 6, 10)
    IN  65535 - FoldCarries(state)

\* Ipv4Protocol::try_from(u8): the protocol numbers the stack knows.
Ipv4ProtocolTryFrom(n) == IF n \in {1, 6, 17} THEN Some(n) ELSE None

Ipv4Header(version, ihl, dscp, ecn, total_length, identification, flags, fragment_offset, ttl, protocol, header_checksum, src_addr, dst_addr) ==
    [version |-> version, ihl |-> ihl, dscp |-> dscp, ecn |-> ecn,
     total_length |-> total_length, identification |-> identification,
     flags |-> flags, fragment_offset |-> fragment_offset, ttl |-> ttl,
     protocol |-> protocol, header_checksum |-> header_checksum,
     src_addr |-> src_addr, dst_addr |-> dst_addr]

\* Buffer::adjust(n): the first n bytes are removed.
Adjust(buf, n) == SubSeq(buf, n + 1, Len(buf))

\* Buffer::trim(n): the last n bytes are removed.
Trim(buf, n) == SubSeq(buf, 1, Len(buf) - n)

\* A faulty variant: the buffer is taken to end with the datagram.
PaddingBytes_None(buf, total_length) == 0

\* let padding_bytes: usize = buf.len() - (total_length as usize);
PaddingBytes(buf, total_length) == Len(buf) - total_length

TooSmall(buf) == Len(buf) < IPV4_DATAGRAM_MIN_SIZE

\* A faulty variant: the total length is never compared with the buffer.
SizeMismatch_Unchecked(total_length, buf) == FALSE

SizeMismatch(total_length, buf) == total_length > Len(buf)

Fragmented(fragment_offset) == fragment_offset # 0

\* The part of Ipv4Header::parse after the header slice is taken.
ParseHeader(buf, hdr_buf) ==
    LET version == hdr_buf[1] \div 16
        ihl == hdr_buf[1] % 16
        dscp == hdr_buf[2] \div 4
        ecn == hdr_buf[2] % 4
        total_length == ReadU16(hdr_buf, 2)
        identification == ReadU16(hdr_buf, 4)
        flags == ReadU16(hdr_buf, 6) \div 8192
        fragment_offset == ReadU16(hdr_buf, 6) % 8192
        time_to_live == hdr_buf[9]
        protocol == Ipv4ProtocolTryFrom(hdr_buf[10])
        header_checksum == ReadU16(hdr_buf, 10)
    IN  IF version # IPV4_VERSION
        THEN Fail("ENOTSUP", "unsupported IP version")
        ELSE IF ihl < IPV4_IHL_NO_OPTIONS
        THEN Fail("EBADMSG", "IPv4 IHL is too small")
        ELSE IF ihl > IPV4_IHL_NO_OPTIONS
        THEN Fail("ENOTSUP", "IPv4 options are not supported")
        ELSE IF dscp # 0
        THEN Fail("ENOTSUP", "ipv4 dscp is not supported")
        ELSE IF total_length < IPV4_HEADER_MIN_SIZE
        THEN Fail("EBADMSG", "ipv4 datagram too small")
        ELSE IF SizeMismatch(total_length, buf)
        THEN Fail("EBADMSG", "ipv4 datagram size mismatch")
        ELSE IF Fragmented(fragment_offset)
        THEN Fail("ENOTSUP", "IPv4 fragmentation is unsupported")
        ELSE IF ~protocol.some
        THEN Fail("ENOTSUP", "unsupported IPv4 protocol")
        ELSE IF header_checksum = 65535
        THEN Fail("EBADMSG", "IPv4 checksum is 0xFFFF")
        ELSE IF header_checksum # compute_checksum(hdr_buf)
        THEN Fail("EBADMSG", "Invalid IPv4 checksum")
        ELSE IF Len(buf) < total_length
        THEN Panic("attempt to subtract with overflow")
        ELSE [tag |-> "Ok",
              header |-> Ipv4Header(version, ihl, dscp, ecn, total_length,
                                    identification, flags, fragment_offset,
                                    time_to_live, protocol.val, header_checksum,
                                    ReadU32(hdr_buf, 12), ReadU32(hdr_buf, 16)),
              payload |-> Trim(Adjust(buf, IPV4_HEADER_MIN_SIZE),
                               PaddingBytes(buf, total_length))]

\* Ipv4Header::parse.  Slicing &buf[..20] panics on a shorter buffer.
parse(buf) ==
    IF TooSmall(buf)
    THEN Fail("EBADMSG", "ipv4 datagram too small")
    ELSE IF Len(buf) < IPV4_HEADER_MIN_SIZE
    THEN Panic("range end index out of range")
    ELSE ParseHeader(buf, SubSeq(buf, 1, IPV4_HEADER_MIN_SIZE))

(***************************************************************************)
(* The buffers handed to Ipv4Header::parse: headers from Bob to Alice      *)
(* built field by field, with a valid, an all-ones or an off-by-one        *)
(* checksum, followed by payload and padding bytes; and cut-off buffers.   *)
(***************************************************************************)
AddrBytes(addr) == WriteU16(addr[1]) \o WriteU16(addr[2])

HeaderBytes(b0, b1, total_length, flags_offset, protocol, checksum) ==
    <<b0, b1>> \o WriteU16(total_length) \o WriteU16(0) \o WriteU16(flags_offset)
        \o <<DEFAULT_IPV4_TTL, protocol>> \o WriteU16(checksum)
        \o AddrBytes(BOB_IPV4) \o AddrBytes(ALICE_IPV4)

Datagram(b0, b1, total_length, flags_offset, protocol, kind, n) ==
    LET valid == compute_checksum(
                     HeaderBytes(b0, b1, total_length, flags_offset, protocol, 0))
        checksum == IF kind = "valid" THEN valid
                    ELSE IF kind = "ones" THEN 65535
                    ELSE (valid + 1) % 65535
    IN  HeaderBytes(b0, b1, total_length, flags_offset, protocol, checksum)
            \o [i \in 1..n |-> 160 + i]

Datagrams ==
    { Datagram(b0, b1, total_length, flags_offset, protocol, kind, n) :
          b0 \in {69, 68, 70, 85},
          b1 \in {0, 1, 4},
          total_length \in {19, 20, 22, 24},
          flags_offset \in {0, 8192, 16384, 1, 8193},
          protocol \in {6, 99},
          kind \in {"valid", "ones", "wrong"},
          n \in {0, 2, 4} }

Buffers ==
    Datagrams \cup {SubSeq(Datagram(69, 0, 20, 0, 6, "valid", 0), 1, k) : k \in {0, 19}}

(***************************************************************************)
(* Ipv4Header::new and Ipv4Header::serialize.                              *)
(***************************************************************************)
\* Ipv4Header::new
Ipv4HeaderNew(src_addr, dst_addr, protocol) ==
    Ipv4Header(IPV4_VERSION, IPV4_IHL_NO_OPTIONS, 0, 0, IPV4_HEADER_MIN_SIZE, 0, 0, 0,
               DEFAULT_IPV4_TTL, protocol, 0, src_addr, dst_addr)

\* IPV4_HEADER_MIN_SIZE + (payload_len as u16) does not fit in a u16.
SerializeOverflows(payload_len) == IPV4_HEADER_MIN_SIZE + (payload_len % Two16) >= Two16

\* The 20 bytes before the checksum is written: bytes 10..12 are still zero.
SerializeFields(hdr, payload_len) ==
    <<IPV4_VERSION * 16 + IPV4_IHL_NO_OPTIONS, ((hdr.dscp * 4) % 256) + (hdr.ecn % 4)>>
        \o WriteU16((IPV4_HEADER_MIN_SIZE + (payload_len % Two16)) % Two16)
        \o WriteU16(hdr.identification)
        \o WriteU16(((hdr.flags * 8192) % Two16) + (hdr.fragment_offset % 8192))
        \o <<hdr.ttl, hdr.protocol>>
        \o WriteU16(0)
        \o AddrBytes(hdr.src_addr) \o AddrBytes(hdr.dst_addr)

\* A faulty variant: the checksum is never written.
serialize_NoChecksum(hdr, payload_len) == SerializeFields(hdr, payload_len)

\* Ipv4Header::serialize into a zeroed 20-byte buffer, where the total length fits or
\* the addition wraps.
serialize(hdr, payload_len) ==
    LET buf == SerializeFields(hdr, payload_len)
    IN  SubSeq(buf, 1, 10) \o WriteU16(compute_checksum(buf)) \o SubSeq(buf, 13, 20)

\* The largest payload whose total length fits the 16-bit field.
MaxPayloadLen == (Two16 - 1) - IPV4_HEADER_MIN_SIZE

\* The payload lengths serialized: none, a few bytes, the two with which the words of
\* a TCP header from Bob to Alice sum to a multiple of 0xffff and to one more, the
\* largest that fits and the first that does not.
PayloadLens == {0, 3, 14480, 14481, MaxPayloadLen, MaxPayloadLen + 1}

Payload(n) == [i \in 1..n |-> i % 256]

Ipv4Addrs == {ALICE_IPV4, BOB_IPV4, U32(65535, 65535)}

Ipv4Protocols == {1, 6, 17}

NewHeaders ==
    { Ipv4HeaderNew(src, dst, protocol) :
          src \in Ipv4Addrs, dst \in Ipv4Addrs \ {U32(65535, 65535)},
          protocol \in Ipv4Protocols }

\* Bit k (0 the least significant) of a byte is inverted.
FlipBit(byte, k) ==
    IF (byte \div (2 ^ k)) % 2 = 1 THEN byte - 2 ^ k ELSE byte + 2 ^ k

HeaderBits == 0 .. (8 * IPV4_HEADER_MIN_SIZE - 1)

(***************************************************************************)
(* The codec on its own: parse is applied to one buffer, or a header made  *)
(* by Ipv4Header::new is serialized in front of a payload, one bit of the  *)
(* header may be inverted on the wire, and the result is parsed.           *)
(***************************************************************************)
\* The datagram on the wire: the bytes of buf followed by the payload.
Wire == ip.buf \o Payload(ip.n)

InitIp ==
    /\ PassiveSocketNew
    /\ EstIdle
    /\ \/ ip \in {[IpIdle EXCEPT !.buf = b, !.pc = "parse"] : b \in Buffers}
       \/ ip \in {[IpIdle EXCEPT !.pc = "serialize", !.hdr = h, !.n = n] :
                      h \in NewHeaders, n \in PayloadLens}

Serialize ==
    /\ ip.pc = "serialize"
    /\ \/ /\ SerializeOverflows(ip.n)
          /\ ip' = [ip EXCEPT !.pc = "aborted", !.res = Panic("attempt to add with overflow")]
       \/ ip' = [ip EXCEPT !.pc = "wire", !.buf = serialize(ip.hdr, ip.n)]
    /\ UNCHANGED socket_vars

Flip ==
    /\ ip.pc = "wire"
    /\ \E k \in HeaderBits :
           ip' = [ip EXCEPT !.pc = "parse", !.bit = k,
                            !.buf[(k \div 8) + 1] = FlipBit(@, 7 - (k % 8))]
    /\ UNCHANGED socket_vars

Deliver ==
    /\ ip.pc = "wire"
    /\ ip' = [ip EXCEPT !.pc = "parse"]
    /\ UNCHANGED socket_vars

Parse ==
    /\ ip.pc = "parse"
    /\ ip' = [ip EXCEPT !.pc = "done", !.res = parse(Wire)]
    /\ UNCHANGED socket_vars

NextIp == (Serialize \/ Flip \/ Deliver \/ Parse) /\ UNCHANGED est_vars

SpecIp == InitIp /\ [][NextIp]_vars

(***************************************************************************)
(* Properties of the IPv4 codec.                                           *)
(***************************************************************************)
\* C9: Ipv4Header::parse returns Ok or a Fail for every buffer (it never panics),
\* and it returns a Fail when the buffer is shorter than 20 bytes, the version is
\* not 4, the IHL is below or above 5, the DSCP is not 0, the total length is below
\* 20 or above the buffer length, the checksum field is 0xFFFF, or the checksum
\* field differs from the computed header checksum.
C9_ParseReportsTypedErrors ==
    ip.pc = "done" =>
        LET b == Wire
        IN  /\ ip.res.tag \in {"Ok", "Err"}
            /\ (\/ Len(b) < 20
                \/ b[1] \div 16 # 4
                \/ b[1] % 16 < 5
                \/ b[1] % 16 > 5
                \/ b[2] \div 4 # 0
                \/ b[3] * 256 + b[4] < 20
                \/ b[3] * 256 + b[4] > Len(b)
                \/ b[11] * 256 + b[12] = 65535
                \/ b[11] * 256 + b[12] # compute_checksum(SubSeq(b, 1, 20)))
               => ip.res.tag = "Err"

\* C9: parse has rejected a header whose only fault is a total length above the
\* buffer length.
C9_Witness ==
    /\ ip.pc = "done"
    /\ ip.buf = Datagram(69, 0, 24, 0, 6, "valid", 2)
    /\ ip.res = Fail("EBADMSG", "ipv4 datagram size mismatch")

\* C10: parse returns the fragmentation-unsupported error for every datagram whose
\* fragment offset is not zero or whose More-Fragments flag is set, even when every
\* other field and the checksum are valid.
C10_FragmentationRejected ==
    LET b == Wire
    IN  (/\ ip.pc = "done"
         /\ Len(b) >= 20
         /\ parse(SubSeq(b, 1, 6) \o WriteU16(0) \o SubSeq(b, 9, 10)
                   \o WriteU16(compute_checksum(
                                   SubSeq(b, 1, 6) \o WriteU16(0) \o SubSeq(b, 9, 20)))
                   \o SubSeq(b, 13, Len(b))).tag = "Ok"
         /\ b[11] * 256 + b[12] = compute_checksum(SubSeq(b, 1, 20))
         /\ \/ (b[7] * 256 + b[8]) % 8192 # 0
            \/ (b[7] \div 32) % 2 = 1)
        => ip.res = Fail("ENOTSUP", "IPv4 fragmentation is unsupported")

\* C10: parse has accepted a datagram with the More-Fragments flag set.
C10_MoreFragmentsAccepted ==
    /\ ip.pc = "done"
    /\ ip.buf = Datagram(69, 0, 22, 8192, 6, "valid", 2)
    /\ ip.res.tag = "Ok"
    /\ ip.res.header.flags = 1

\* C11: whenever parse succeeds, the payload it returns has exactly
\* total_length - 20 bytes and is the bytes [20, total_length) of the input, where
\* total_length is the big-endian 16-bit value at bytes 2..4 of the input; the
\* bytes of the input behind total_length are not in the payload.
C11_PayloadTruncation ==
    (ip.pc = "done" /\ ip.res.tag = "Ok")
    => LET b == Wire
           total_length == b[3] * 256 + b[4]
       IN  /\ Len(b) >= total_length
           /\ Len(ip.res.payload) = total_length - 20
           /\ \A i \in 1 .. Len(ip.res.payload) : ip.res.payload[i] = b[20 + i]

\* C11: parse has succeeded on a buffer of 24 bytes whose total length is 22: the
\* payload is the two bytes behind the header and the two padding bytes are gone.
C11_Witness ==
    /\ ip.pc = "done"
    /\ ip.buf = Datagram(69, 0, 22, 0, 6, "valid", 4)
    /\ ip.res.tag = "Ok"
    /\ ip.res.payload = <<161, 162>>

\* C12: a header built by Ipv4Header::new and serialized with a payload length n,
\* 20 + n <= 65535, in front of n payload bytes parses successfully when no bit was
\* changed on the wire, and the parsed header has the same source address,
\* destination address and protocol, TTL 255, identification 0, flags 0, fragment
\* offset 0 and total length 20 + n.
C12_HeaderRoundTrip ==
    (/\ ip.pc = "done"
     /\ ip.hdr # NoResult
     /\ ip.bit = -1
     /\ 20 + ip.n <= 65535)
    => /\ ip.res.tag = "Ok"
       /\ ip.res.header.src_addr = ip.hdr.src_addr
       /\ ip.res.header.dst_addr = ip.hdr.dst_addr
       /\ ip.res.header.protocol = ip.hdr.protocol
       /\ ip.res.header.ttl = 255
       /\ ip.res.header.identification = 0
       /\ ip.res.header.flags = 0
       /\ ip.res.header.fragment_offset = 0
       /\ ip.res.header.total_length = 20 + ip.n

\* C12: a header from Bob to Alice with the largest payload that fits has made the
\* round trip.
C12_Witness ==
    /\ ip.pc = "done"
    /\ ip.hdr = Ipv4HeaderNew(BOB_IPV4, ALICE_IPV4, 6)
    /\ ip.n = MaxPayloadLen
    /\ ip.bit = -1
    /\ ip.res.tag = "Ok"
    /\ ip.res.header.total_length = 65535

\* C13: parse never reports a checksum error for a header written by serialize that
\* reaches it unchanged, and accepts it when the total length fits; and it returns an
\* error whenever one bit of the 20 serialized header bytes was inverted.
C13_ChecksumRoundTrip ==
    (ip.pc = "done" /\ ip.hdr # NoResult)
    => /\ ip.bit = -1
          => /\ ip.res \notin {Fail("EBADMSG", "Invalid IPv4 checksum"),
                               Fail("EBADMSG", "IPv4 checksum is 0xFFFF")}
             /\ 20 + ip.n <= 65535 => ip.res.tag = "Ok"
       /\ ip.bit # -1 => ip.res.tag = "Err"

\* C13: a bit of the destination address of a serialized header was inverted and
\* parse has answered with the checksum error.
C13_Witness ==
    /\ ip.pc = "done"
    /\ ip.hdr # NoResult
    /\ ip.bit = 159
    /\ ip.buf[20] = FlipBit(serialize(ip.hdr, ip.n)[20], 0)
    /\ ip.res = Fail("EBADMSG", "Invalid IPv4 checksum")

(***************************************************************************)
(* Further properties of the passive socket.                               *)
(***************************************************************************)
\* C14: the k-th call of generate (k = 0, 1, ...) does not abort and returns the
\* CRC-32 of (remote address, remote port, local address, local port, nonce) plus
\* k mod 2^16, modulo 2^32; the counter is k mod 2^16 before the call and advances
\* by one, wrapping at 2^16.  generate is called by receive for a SYN from a remote
\* endpoint that is neither ready nor in flight, when the backlog has room.
C14_IsnGeneration ==
    /\ [](isn_generator.counter = isn_calls % Two16)
    /\ [][\A r \in Remotes :
              (/\ last'.op = "receive" /\ last'.remote = r
               /\ ~ReadyContains(r)
               /\ ~contains_key(inflight, r)
               /\ ~BacklogFull(Cardinality(inflight)))
              => \A h \in SynHeaders :
                     Receive(r, h)
                     => /\ ~panicked'
                        /\ contains_key(inflight', r)
                        /\ get(inflight', r).local_isn
                               = WrappingAdd(IsnHash(isn_generator, r),
                                             isn_calls % Two16)
                        /\ isn_generator'.counter = (isn_generator.counter + 1) % Two16
                        /\ isn_generator'.nonce = isn_generator.nonce]_vars

\* C14: generate has aborted in its second call, on the hash 0xFFFFFFFF.
C14_GenerateAborted ==
    /\ last.op = "receive"
    /\ last.res = "panic"
    /\ last.cause = "attempt to add with overflow"
    /\ IsnHash(isn_generator, last.remote) = Ones32
    /\ isn_generator.counter = 1

\* C16: a segment with RST set for a remote endpoint whose handshake is in flight
\* never puts a control block of that endpoint into the ready queue, whatever its
\* other flags and its ack_num are.
C16_RstDuringPassiveOpen ==
    [][\A r \in Remotes :
           (last'.op = "receive" /\ last'.remote = r /\ contains_key(inflight, r))
           => \A h \in Headers(r) :
                  (h.rst /\ Receive(r, h))
                  => \A i \in DOMAIN ready'.ready :
                         ready'.ready[i].tag = "Ok" => ready'.ready[i].cb.remote # r]_vars

\* C19: the in-flight entry recorded for an admitted SYN holds the value of the
\* SYN's MSS option, or 536 when it has none, and the SYN's window-scale option, or
\* None; the entry does not change while it is in flight; and the control block
\* pushed when the handshake completes has the MSS of the entry, and has the
\* configured window scale as local scale and the recorded one as remote scale when
\* one was recorded, and both scales 0 otherwise.
C19_OptionNegotiation ==
    [][\A r \in Remotes :
           /\ (contains_key(inflight, r) /\ contains_key(inflight', r))
                  => get(inflight', r) = get(inflight, r)
           /\ (last'.op = "receive" /\ last'.remote = r /\ last'.res = "Ok")
                  => /\ (~contains_key(inflight, r) /\ contains_key(inflight', r))
                            => \A h \in SynHeaders :
                                   Receive(r, h)
                                   => LET a == get(inflight', r)
                                          o == h.options
                                          m == {k \in DOMAIN o : o[k].kind = "MaximumSegmentSize"}
                                          w == {k \in DOMAIN o : o[k].kind = "WindowScale"}
                                      IN  /\ a.mss = IF m = {} THEN 536
                                                     ELSE o[CHOOSE k \in m : TRUE].val
                                          /\ a.remote_window_scale
                                                 = IF w = {} THEN None
                                                   ELSE Some(o[CHOOSE k \in w : TRUE].val)
                     /\ (contains_key(inflight, r) /\ ~contains_key(inflight', r))
                            => LET a == get(inflight, r)
                                   cb == ready'.ready[Len(ready'.ready)].cb
                               IN  /\ Len(ready'.ready) = Len(ready.ready) + 1
                                   /\ cb.remote = r
                                   /\ cb.mss = a.mss
                                   /\ IF a.remote_window_scale.some
                                      THEN /\ cb.local_window_scale = WindowScale
                                           /\ cb.remote_window_scale
                                                  = a.remote_window_scale.val
                                      ELSE /\ cb.local_window_scale = 0
                                           /\ cb.remote_window_scale = 0]_vars

\* C19: the handshake of a SYN with MSS 1460 and window scale 2 has completed; its
\* control block has MSS 1460 and remote scale 2.
C19_Witness ==
    /\ last.op = "receive"
    /\ last.cause = "handshake completed"
    /\ ready.ready # <<>>
    /\ ready.ready[Len(ready.ready)].tag = "Ok"
    /\ ready.ready[Len(ready.ready)].cb.mss = 1460
    /\ ready.ready[Len(ready.ready)].cb.remote_window_scale = 2
    /\ ready.ready[Len(ready.ready)].cb.local_window_scale = WindowScale

\* C20: the control block pushed when a handshake completes has as remote window the
\* window size of the SYN times 2 to the remote window scale, as a 32-bit value with
\* no bits lost, and as local window the configured receive window size times 2 to
\* the local window scale.
C20_ScaledWindows ==
    [][\A r \in Remotes :
           (/\ last'.op = "receive" /\ last'.remote = r
            /\ last'.cause = "handshake completed"
            /\ contains_key(inflight, r))
           => LET a == get(inflight, r)
                  cb == ready'.ready[Len(ready'.ready)].cb
                  remote == a.header_window_size * 2 ^ cb.remote_window_scale
                  local == ReceiveWindowSize * 2 ^ cb.local_window_scale
              IN  /\ cb.remote_window_scale <= 14
                  /\ cb.remote_window_size = U32(remote \div Two16, remote % Two16)
                  /\ cb.local_window_size = U32(local \div Two16, local % Two16)]_vars

\* C20: the handshake of a SYN with window 65535 and window scale 2 has completed
\* with a remote window of 65532 instead of 262140.
C20_BitsLost ==
    /\ last.op = "receive"
    /\ last.cause = "handshake completed"
    /\ ready.ready # <<>>
    /\ ready.ready[Len(ready.ready)].tag = "Ok"
    /\ ready.ready[Len(ready.ready)].cb.remote_window_scale = 2
    /\ ready.ready[Len(ready.ready)].cb.remote_window_size = U32(0, 65532)

(***************************************************************************)
(* The established path.  An EstablishedSocket holds its control block and *)
(* the scheduler handle of the background task spawned for it (protocols/  *)
(* tcp/established/mod.rs).  The control block is the record of the        *)
(* arguments of ControlBlock::new together with the state the established  *)
(* path keeps: the connection state, RCV.NXT, the bytes ready for the      *)
(* reader and the ack deadline, which is the time left until the delayed   *)
(* ACK is due.  The background task runs the acknowledger (established/    *)
(* background/acknowledger.rs): pc is "start" before its first poll and    *)
(* "select" while it is suspended in select_biased!, seen is the deadline  *)
(* it read at the head of its loop and changed tells whether the deadline  *)
(* was set since.                                                          *)
(***************************************************************************)
AckDelayTimeout == 2

ControlBlockState(cb) ==
    [cb |-> cb, state |-> "ESTABLISHED", rcv_nxt |-> cb.receiver_seq_no,
     recv_queue |-> <<>>, ack_deadline |-> None]

AckTask(pc, seen, changed) == [pc |-> pc, seen |-> seen, changed |-> changed]

LiveAck(t) == t.pc \in {"start", "select"}

\* EstablishedSocket::new
EstablishedSocketNew(cb) ==
    [tag |-> "Some", cb |-> ControlBlockState(cb),
     background_work |-> AckTask("start", None, FALSE)]

\* WatchedValue::set on the ack deadline: the value is stored and the task watching
\* it is woken.
SetAckDeadline(sock, d) ==
    [sock EXCEPT !.cb.ack_deadline = d,
                 !.background_work.changed = (@ \/ sock.background_work.pc = "select")]

\* rt.wait_until(t) has resolved.
AckExpired(d) == d.some /\ d.val = 0

\* cb.send_ack(): a bare ACK of RCV.NXT is emitted, which cancels the delayed ACK.
AckSegment(cb) ==
    [hdr |-> TcpHeader(FALSE, TRUE, FALSE, cb.cb.sender_seq_no, cb.rcv_nxt,
                       ReceiveWindowSize, <<>>),
     data |-> <<>>]

\* The acknowledger's loop from its head: the deadline is read and watched, and the
\* select suspends unless the timer for the deadline has already resolved, in which
\* case the ACK is sent and the next iteration finds no deadline.
AckLoopHead(sock, sent) ==
    IF AckExpired(sock.cb.ack_deadline)
    THEN [sock |-> [sock EXCEPT !.cb.ack_deadline = None,
                                !.background_work = AckTask("select", None, FALSE)],
          sent |-> TRUE]
    ELSE [sock |-> [sock EXCEPT !.background_work =
                                    AckTask("select", sock.cb.ack_deadline, FALSE)],
          sent |-> sent]

\* A faulty variant: the task is not woken by a change of the deadline.
AckRunnable_TimerOnly(t) ==
    \/ t.pc = "start"
    \/ t.pc = "select" /\ AckExpired(t.seen)

\* The acknowledger can make progress: it was never polled, or one of the two futures
\* of its select has resolved.
AckRunnable(t) ==
    \/ t.pc = "start"
    \/ t.pc = "select" /\ (t.changed \/ AckExpired(t.seen))

\* A faulty variant: the select takes the timer first.
AckPoll_TimerFirst(sock) ==
    LET t == sock.background_work
    IN  IF t.pc = "select" /\ AckExpired(t.seen)
        THEN AckLoopHead([sock EXCEPT !.cb.ack_deadline = None], TRUE)
        ELSE AckLoopHead(sock, FALSE)

\* One poll of the acknowledger: select_biased! takes the change of the deadline
\* first (continue), and the timer otherwise (send_ack, then the next iteration).
AckPoll(sock) ==
    LET t == sock.background_work
    IN  IF t.pc = "start" \/ t.changed
        THEN AckLoopHead(sock, FALSE)
        ELSE AckLoopHead([sock EXCEPT !.cb.ack_deadline = None], TRUE)

Acknowledger(remote) ==
    /\ established[remote] # NoSocket
    /\ AckRunnable(established[remote].background_work)
    /\ LET p == AckPoll(established[remote])
       IN  /\ established' = [established EXCEPT ![remote] = p.sock]
           /\ last' = Call("acknowledger", remote, "Pending",
                           IF p.sent THEN "send_ack"
                           ELSE IF established[remote].background_work.changed
                           THEN "continue" ELSE "",
                           IF p.sent THEN AckSegment(established[remote].cb)
                           ELSE NoEntry)
    /\ UNCHANGED <<inflight, ready, isn_generator, tasks, woken, panicked, wrapped,
                   isn_calls, ip>>

\* The control block takes a segment (the in-order and the reset case of the receive
\* path): a reset at RCV.NXT closes the connection, drops the queued data and wakes
\* every waiter; in-order data is queued for the reader, RCV.NXT advances and the
\* delayed ACK is armed unless it is armed already; any other data is answered with
\* an ACK at once and dropped.
CbReceive(sock, seg) ==
    IF sock.cb.state = "CLOSED"
    THEN [sock |-> sock, reply |-> NoEntry]
    ELSE IF seg.hdr.rst
    THEN [sock |-> IF seg.hdr.seq_num = sock.cb.rcv_nxt
                   THEN [sock EXCEPT !.cb.state = "CLOSED",
                                     !.cb.recv_queue = <<>>,
                                     !.background_work.changed =
                                         (@ \/ sock.background_work.pc = "select")]
                   ELSE sock,
          reply |-> NoEntry]
    ELSE IF seg.data = <<>>
    THEN [sock |-> sock, reply |-> NoEntry]
    ELSE IF seg.hdr.seq_num = sock.cb.rcv_nxt
    THEN LET got == [sock EXCEPT !.cb.recv_queue = @ \o seg.data,
                                 !.cb.rcv_nxt = WrappingAdd(@, Len(seg.data))]
         IN  [sock |-> IF sock.cb.ack_deadline.some THEN got
                       ELSE SetAckDeadline(got, Some(AckDelayTimeout)),
              reply |-> NoEntry]
    ELSE [sock |-> SetAckDeadline(sock, None), reply |-> AckSegment(sock.cb)]

\* EstablishedSocket::receive
EstablishedReceive(remote, seg) ==
    /\ established[remote] # NoSocket
    /\ LET r == CbReceive(established[remote], seg)
       IN  /\ established' = [established EXCEPT ![remote] = r.sock]
           /\ last' = Call("established.receive", remote, "Ok", "", r.reply)
    /\ UNCHANGED <<inflight, ready, isn_generator, tasks, woken, panicked, wrapped,
                   isn_calls, ip>>

\* EstablishedSocket::poll_recv: the bytes queued for the reader, a connection-reset
\* error on a closed connection with nothing queued, Pending otherwise.
PollRecv(remote) ==
    /\ established[remote] # NoSocket
    /\ LET cb == established[remote].cb
       IN  IF cb.recv_queue # <<>>
           THEN /\ established' = [established EXCEPT ![remote].cb.recv_queue = <<>>]
                /\ last' = Call("poll_recv", remote, "Ready", "", cb.recv_queue)
           ELSE /\ established' = established
                /\ last' = IF cb.state = "CLOSED"
                           THEN Call("poll_recv", remote, "ECONNRESET", "", NoEntry)
                           ELSE Call("poll_recv", remote, "Pending", "", NoEntry)
    /\ UNCHANGED <<inflight, ready, isn_generator, tasks, woken, panicked, wrapped,
                   isn_calls, ip>>

\* The clock advances by one tick for the established sockets.
TickEstablished ==
    /\ \E r \in Remotes :
           /\ established[r] # NoSocket
           /\ \/ established[r].cb.ack_deadline.some /\ established[r].cb.ack_deadline.val > 0
              \/ established[r].background_work.seen.some /\ established[r].background_work.seen.val > 0
    /\ established' =
           [r \in Remotes |->
               IF established[r] = NoSocket THEN NoSocket
               ELSE [established[r] EXCEPT
                        !.cb.ack_deadline.val = IF @ > 0 THEN @ - 1 ELSE 0,
                        !.background_work.seen.val = IF @ > 0 THEN @ - 1 ELSE 0]]
    /\ last' = Call("tick", NoRemote, "Ok", "", NoEntry)
    /\ UNCHANGED <<inflight, ready, isn_generator, tasks, woken, panicked, wrapped,
                   isn_calls, ip>>

\* The EstablishedSocket is dropped, and its scheduler handle with it: the background
\* task leaves the scheduler.
DropSocket(remote) ==
    /\ established[remote] # NoSocket
    /\ established' = [established EXCEPT ![remote] = NoSocket]
    /\ last' = Call("drop", remote, "Ok", "", NoEntry)
    /\ UNCHANGED <<inflight, ready, isn_generator, tasks, woken, panicked, wrapped,
                   isn_calls, ip>>

(***************************************************************************)
(* An established socket on its own: the socket of a connection from Bob,  *)
(* as EstablishedSocket::new leaves it, takes in-order data, duplicates    *)
(* and resets while its acknowledger runs and the clock advances.          *)
(***************************************************************************)
Bob == Ipv4Endpoint(BOB_IPV4, 12101)

\* The control block of the completed handshake of Bob's bare SYN.
BobControlBlock ==
    ControlBlockNew(Local, Bob, U32(0, 1), U32(0, ReceiveWindowSize), 0, U32(0, 0),
                    U32(0, 1024), 0, FALLBACK_MSS)

\* The number of payload bytes a socket takes in this specification.
MaxData == 2

\* The number of payload bytes the socket has taken (fewer than 2^16).
Received(sock) == (sock.cb.rcv_nxt[2] - sock.cb.cb.receiver_seq_no[2]) % Two16

\* The segments that reach the socket: the next byte of the stream, the byte before
\* it again, and a reset at RCV.NXT.
EstSegments(sock) ==
    LET hdr(rst, seq) == TcpHeader(FALSE, TRUE, rst, seq, sock.cb.cb.sender_seq_no,
                                   1024, <<>>)
    IN  { [hdr |-> hdr(FALSE, sock.cb.rcv_nxt), data |-> <<Received(sock)>>],
          [hdr |-> hdr(FALSE, sock.cb.cb.receiver_seq_no), data |-> <<0>>],
          [hdr |-> hdr(TRUE, sock.cb.rcv_nxt), data |-> <<>>] }

InitAck ==
    /\ PassiveSocketNew
    /\ ip = IpIdle
    /\ established = [r \in Remotes |->
                         IF r = Bob THEN EstablishedSocketNew(BobControlBlock)
                         ELSE NoSocket]
    /\ client = Idle
    /\ wire = WireIdle
    /\ app = Idle

NextAck ==
    \/ \E remote \in Remotes :
           /\ established[remote] # NoSocket
           /\ Received(established[remote]) < MaxData
           /\ \E seg \in EstSegments(established[remote]) :
                  EstablishedReceive(remote, seg)
           /\ UNCHANGED <<client, wire, app>>
    \/ \E remote \in Remotes : Acknowledger(remote) /\ UNCHANGED <<client, wire, app>>
    \/ \E remote \in Remotes : PollRecv(remote) /\ UNCHANGED <<client, wire, app>>
    \/ TickEstablished /\ UNCHANGED <<client, wire, app>>
    \/ \E remote \in Remotes : DropSocket(remote) /\ UNCHANGED <<client, wire, app>>

SpecAck == InitAck /\ [][NextAck]_vars

\* C18: once the control block is CLOSED, the acknowledger has returned after its
\* next poll.
C18_AcknowledgerExitsOnClosed ==
    [][\A r \in Remotes :
           (/\ established[r] # NoSocket
            /\ established[r].cb.state = "CLOSED"
            /\ last'.op = "acknowledger" /\ last'.remote = r
            /\ Acknowledger(r))
           => ~LiveAck(established'[r].background_work)]_vars

\* C18: the acknowledger of a CLOSED control block was polled, has sent an ACK and
\* is suspended in its select again.
C18_AckAfterClosed ==
    /\ last.op = "acknowledger"
    /\ last.cause = "send_ack"
    /\ established[last.remote] # NoSocket
    /\ established[last.remote].cb.state = "CLOSED"
    /\ established[last.remote].background_work.pc = "select"

(***************************************************************************)
(* The listening socket together with the sockets it hands to accept: a    *)
(* segment of a connection that has an established socket goes to that     *)
(* socket, every other segment to the passive socket; accept takes the     *)
(* head of the ready queue and wraps a control block in                    *)
(* EstablishedSocket::new.                                                 *)
(***************************************************************************)
\* accept: poll_accept, and EstablishedSocket::new on the control block it returns.
Accept ==
    /\ PollAccept
    /\ established' =
           IF last'.res = "Ready" /\ last'.out.tag = "Ok"
           THEN [established EXCEPT ![last'.out.cb.remote] =
                                        EstablishedSocketNew(last'.out.cb)]
           ELSE established

\* A segment for the passive socket: no established socket has its remote endpoint.
PassiveReceive(remote, header) ==
    /\ established[remote] = NoSocket
    /\ Receive(remote, header)

NextEst ==
    \/ \E remote \in Remotes : \E header \in Headers(remote) :
           PassiveReceive(remote, header) /\ UNCHANGED est_vars
    \/ Accept /\ UNCHANGED <<client, wire, app>>
    \/ \E remote \in Remotes : Background(remote) /\ UNCHANGED est_vars
    \/ Tick /\ UNCHANGED est_vars
    \/ \E remote \in Remotes : Acknowledger(remote) /\ UNCHANGED <<client, wire, app>>
    \/ \E remote \in Remotes : DropSocket(remote) /\ UNCHANGED <<client, wire, app>>

SpecEst == Init /\ [][NextEst]_vars

\* The remote endpoints of the control blocks that exist in a state other than
\* CLOSED: those in the ready queue and those of the established sockets.
LiveControlBlocks ==
    ReadyRemotes \cup {r \in Remotes : /\ established[r] # NoSocket
                                       /\ established[r].cb.state # "CLOSED"}

\* The number of background task groups in the scheduler that drive the control
\* block of a remote endpoint: the one whose handle an established socket holds.
TaskGroups(r) ==
    IF established[r] # NoSocket /\ LiveAck(established[r].background_work)
    THEN 1 ELSE 0

\* C17: every control block in a state other than CLOSED is driven by exactly one
\* background task group from the completion of its handshake on, and an
\* established socket holds the handle of its one task for as long as it exists.
C17_OneTaskGroup ==
    /\ \A r \in LiveControlBlocks : TaskGroups(r) = 1
    /\ \A r \in Remotes : established[r] # NoSocket => TaskGroups(r) = 1

\* C17: a handshake has just completed: its control block is in the ready queue, its
\* retry task is gone with the in-flight entry, and no task drives it.
C17_ReadyWithoutTask ==
    /\ last.op = "receive"
    /\ last.remote \in ReadyRemotes
    /\ ~contains_key(inflight, last.remote)
    /\ TaskGroups(last.remote) = 0

(***************************************************************************)
(* The two stacks end to end, as tests/tcp_migration.rs runs them: Alice   *)
(* has done socket, bind and listen and waits on accept, then pops from    *)
(* the accepted descriptor; Bob does socket and connect, then pushes one   *)
(* payload.  The two are joined by a pair of reliable FIFO channels.       *)
(* Alice's side is the passive socket and the established socket above;    *)
(* Bob's side is the active open and the sender of the TCP state machine,  *)
(* reduced to one segment of data.  A segment in transit is delivered      *)
(* before the clock advances, so no handshake timer runs out, and the ARP  *)
(* cache holds the peer, so every ARP query resolves.                      *)
(***************************************************************************)
\* The opcode the wait call reports for each variant of OperationResult; a result
\* is a record of the variant's name (tag) and its fields.
Opcode(result) ==
    CASE result.tag = "Connect" -> "DMTR_OPC_CONNECT"
      [] result.tag = "Accept" -> "DMTR_OPC_ACCEPT"
      [] result.tag = "Push" -> "DMTR_OPC_PUSH"
      [] result.tag = "Pop" -> "DMTR_OPC_POP"
      [] result.tag = "Failed" -> "DMTR_OPC_FAILED"
      [] OTHER -> "DMTR_OPC_INVALID"

\* The queue descriptor of the listening socket and the one accept hands out.
ListenQd == 0
AcceptedQd == 1

\* The number of bytes cook_data fills, and the payloads pushed: sequential bytes,
\* and the same bytes in the opposite order.
PushSize == 3

Payloads ==
    { [i \in 1..PushSize |-> i - 1], [i \in 1..PushSize |-> PushSize - i] }

\* The SYN segments of the client: a bare one with ISN 0, and one with ISN 2^32 - 1,
\* the largest window, an MSS and a window scale.
ClientSyns ==
    {h \in SynHeaders :
        \A i \in DOMAIN h.options :
            h.options[i].kind = "WindowScale" => h.options[i].val < 16}

\* The client after socket(): syn is the SYN it will send, payload what it will push.
ClientNew(syn, payload) ==
    [pc |-> "socket", syn |-> syn, payload |-> payload,
     snd_una |-> syn.seq_num, snd_nxt |-> syn.seq_num, rcv_nxt |-> U32(0, 0),
     connect |-> NoResult, push |-> NoResult]

InitE2E ==
    /\ PassiveSocketNew
    /\ ip = IpIdle
    /\ established = [r \in Remotes |-> NoSocket]
    /\ client \in {ClientNew(syn, payload) : syn \in ClientSyns, payload \in Payloads}
    /\ wire = WireIdle
    /\ app = [pc |-> "accept", accept |-> NoResult, pop |-> NoResult]

\* The client's data segment: the payload from SND.UNA on.
DataSegment(c) ==
    [hdr |-> TcpHeader(FALSE, TRUE, FALSE, WrappingAdd(c.syn.seq_num, 1), c.rcv_nxt,
                       c.syn.window_size, <<>>),
     data |-> c.payload]

\* connect: the SYN is emitted and the client is in SYN_SENT.
E2EConnect ==
    /\ client.pc = "socket"
    /\ client' = [client EXCEPT !.pc = "syn_sent"]
    /\ wire' = [wire EXCEPT !.to_server = Append(@, [hdr |-> client.syn, data |-> <<>>])]
    /\ UNCHANGED <<socket_vars, ip, established, app>>

\* The client takes a segment: in SYN_SENT a SYN+ACK of ISN + 1 establishes the
\* connection, completes connect and is answered with the final ACK; once
\* established, an ACK of SND.NXT acknowledges the data; anything else is dropped.
E2EClientReceive ==
    /\ wire.to_client # <<>>
    /\ LET seg == Head(wire.to_client)
           h == seg.hdr
           rest == [wire EXCEPT !.to_client = Tail(@)]
       IN  IF /\ client.pc = "syn_sent"
              /\ h.syn /\ h.ack /\ ~h.rst
              /\ h.ack_num = WrappingAdd(client.syn.seq_num, 1)
           THEN LET c == [client EXCEPT !.pc = "established",
                                        !.snd_una = h.ack_num,
                                        !.snd_nxt = h.ack_num,
                                        !.rcv_nxt = WrappingAdd(h.seq_num, 1),
                                        !.connect = [tag |-> "Connect"]]
                IN  /\ client' = c
                    /\ wire' = [rest EXCEPT !.to_server =
                                   Append(@, [hdr |-> TcpHeader(FALSE, TRUE, FALSE, c.snd_nxt,
                                                                c.rcv_nxt, client.syn.window_size,
                                                                <<>>),
                                              data |-> <<>>])]
           ELSE /\ client' = IF /\ client.pc = "established"
                                /\ h.ack /\ ~h.syn /\ ~h.rst
                                /\ h.ack_num = client.snd_nxt
                             THEN [client EXCEPT !.snd_una = h.ack_num]
                             ELSE client
                /\ wire' = rest
    /\ UNCHANGED <<socket_vars, ip, established, app>>

\* push: the sender takes the payload and emits it in one segment; push completes.
E2EPush ==
    /\ client.pc = "established"
    /\ client.push = NoResult
    /\ client' = [client EXCEPT !.snd_nxt = WrappingAdd(@, Len(client.payload)),
                                !.push = [tag |-> "Push"]]
    /\ wire' = [wire EXCEPT !.to_server = Append(@, DataSegment(client))]
    /\ UNCHANGED <<socket_vars, ip, established, app>>

\* The retransmission timer of the client runs out with nothing in transit: the
\* unacknowledged segment is sent again.
E2ERetransmit ==
    /\ client.pc = "established"
    /\ client.snd_una # client.snd_nxt
    /\ wire = WireIdle
    /\ wire' = [wire EXCEPT !.to_server = Append(@, DataSegment(client))]
    /\ UNCHANGED <<socket_vars, ip, established, app, client>>

\* A segment from the client reaches the passive socket: no established socket has
\* the client's endpoint.
E2EReceivePassive ==
    /\ wire.to_server # <<>>
    /\ PassiveReceive(Bob, Head(wire.to_server).hdr)
    /\ wire' = [wire EXCEPT !.to_server = Tail(@)]
    /\ UNCHANGED <<established, client, app>>

\* A segment from the client reaches the established socket of its connection; the
\* reply, if there is one, is transmitted.
E2EReceiveEstablished ==
    /\ wire.to_server # <<>>
    /\ EstablishedReceive(Bob, Head(wire.to_server))
    /\ wire' = [to_server |-> Tail(wire.to_server),
                to_client |-> IF last'.out = NoEntry THEN wire.to_client
                              ELSE Append(wire.to_client, last'.out)]
    /\ UNCHANGED <<client, app>>

\* The SYN+ACK retry task runs; its ARP query resolves and its segment is transmitted.
E2EBackground ==
    /\ Background(Bob)
    /\ tasks[Bob].pc = "arp" => last'.cause = "transmit"
    /\ wire' = IF last'.cause = "transmit"
               THEN [wire EXCEPT !.to_client = Append(@, [hdr |-> last'.out, data |-> <<>>])]
               ELSE wire
    /\ UNCHANGED <<established, client, app>>

\* The acknowledger of the accepted socket runs; its ACK is transmitted.
E2EAcknowledger ==
    /\ Acknowledger(Bob)
    /\ wire' = IF last'.cause = "send_ack"
               THEN [wire EXCEPT !.to_client = Append(@, last'.out)]
               ELSE wire
    /\ UNCHANGED <<client, app>>

\* The wait on accept polls it: a control block completes it with Accept and a new
\* queue descriptor, an error with Failed.
E2EAccept ==
    /\ app.pc = "accept"
    /\ Accept
    /\ app' = IF last'.res # "Ready" THEN app
              ELSE IF last'.out.tag = "Ok"
              THEN [app EXCEPT !.pc = "pop", !.accept = [tag |-> "Accept", qd |-> AcceptedQd]]
              ELSE [app EXCEPT !.pc = "failed",
                               !.accept = [tag |-> "Failed", errno |-> last'.out.errno]]
    /\ UNCHANGED <<client, wire>>

\* The wait on pop polls it: queued bytes complete it with Pop, the peer's endpoint
\* and the bytes; a reset with Failed.
E2EPop ==
    /\ app.pc = "pop"
    /\ PollRecv(Bob)
    /\ app' = IF last'.res = "Ready"
              THEN [app EXCEPT !.pc = "done",
                               !.pop = [tag |-> "Pop", addr |-> Bob, bytes |-> last'.out]]
              ELSE IF last'.res = "ECONNRESET"
              THEN [app EXCEPT !.pc = "failed", !.pop = [tag |-> "Failed", errno |-> "ECONNRESET"]]
              ELSE app
    /\ UNCHANGED <<client, wire>>

\* The clock advances with nothing in transit.
E2ETick ==
    /\ wire = WireIdle
    /\ TickEstablished
    /\ UNCHANGED <<client, wire, app>>

NextE2E ==
    \/ E2EConnect
    \/ E2EClientReceive
    \/ E2EPush
    \/ E2ERetransmit
    \/ E2EReceivePassive
    \/ E2EReceiveEstablished
    \/ E2EBackground
    \/ E2EAcknowledger
    \/ E2EAccept
    \/ E2EPop
    \/ E2ETick

\* Each wait call polls the scheduler and the network until its operation
\* completes, and the scheduler polls every runnable task: no step that stays
\* possible is put off forever.
FairE2E ==
    /\ WF_vars(E2EConnect)
    /\ WF_vars(E2EClientReceive)
    /\ WF_vars(E2EPush)
    /\ WF_vars(E2ERetransmit)
    /\ WF_vars(E2EReceivePassive)
    /\ WF_vars(E2EReceiveEstablished)
    /\ WF_vars(E2EBackground)
    /\ WF_vars(E2EAcknowledger)
    /\ WF_vars(E2EAccept)
    /\ WF_vars(E2EPop)
    /\ WF_vars(E2ETick)

SpecE2E == InitE2E /\ [][NextE2E]_vars /\ FairE2E

\* The four operations have completed with the results of the claim.
E2ECompleted ==
    /\ Opcode(app.accept) = "DMTR_OPC_ACCEPT"
    /\ app.accept.qd # ListenQd
    /\ Opcode(client.connect) = "DMTR_OPC_CONNECT"
    /\ Opcode(client.push) = "DMTR_OPC_PUSH"
    /\ Opcode(app.pop) = "DMTR_OPC_POP"
    /\ app.pop.bytes = client.payload

\* C15: with a server that listens and accepts and a client that connects and pushes
\* a payload, no operation completes with anything but its own opcode, pop never
\* returns bytes other than those pushed, and eventually accept has completed with
\* ACCEPT and a new descriptor, connect with CONNECT, push with PUSH and pop with POP
\* and exactly the bytes pushed, in their order.
C15_EndToEnd ==
    /\ [](/\ app.accept # NoResult => Opcode(app.accept) = "DMTR_OPC_ACCEPT"
          /\ client.connect # NoResult => Opcode(client.connect) = "DMTR_OPC_CONNECT"
          /\ client.push # NoResult => Opcode(client.push) = "DMTR_OPC_PUSH"
          /\ app.pop # NoResult => /\ Opcode(app.pop) = "DMTR_OPC_POP"
                                   /\ app.pop.bytes = client.payload)
    /\ <>E2ECompleted

\* C15: pop has just returned the payload, which the client still holds for
\* retransmission as no acknowledgement has reached it.
C15_Witness ==
    /\ E2ECompleted
    /\ last.op = "poll_recv"
    /\ last.res = "Ready"
    /\ client.snd_una # client.snd_nxt

(***************************************************************************)
(* Properties of the acknowledger.                                         *)
(***************************************************************************)
\* C21: the acknowledger calls send_ack only when the deadline last set on the
\* control block is Some(t) with the clock at or past t, never while it is None; a
\* poll that finds the deadline changed sends nothing for the deadline it had read,
\* and every poll leaves the task waiting on the deadline the control block holds.
C21_AcknowledgerTiming ==
    [][\A r \in Remotes :
           (/\ established[r] # NoSocket
            /\ last'.op = "acknowledger" /\ last'.remote = r
            /\ Acknowledger(r))
           => LET sock == established[r]
                  t == sock.background_work
              IN  /\ last'.cause = "send_ack" => AckExpired(sock.cb.ack_deadline)
                  /\ (t.pc = "select" /\ t.changed /\ ~AckExpired(sock.cb.ack_deadline))
                         => last'.cause # "send_ack"
                  /\ established'[r].background_work.seen =
                         established'[r].cb.ack_deadline
                  /\ ~established'[r].background_work.changed]_vars

\* C21: a poll has found the deadline changed: it has sent nothing and the task
\* waits on the new deadline, which has not been reached.
C21_Witness ==
    /\ last.op = "acknowledger"
    /\ last.cause = "continue"
    /\ established[last.remote] # NoSocket
    /\ established[last.remote].background_work.pc = "select"
    /\ established[last.remote].background_work.seen.some
    /\ ~AckExpired(established[last.remote].cb.ack_deadline)

\* The scheduler polls the acknowledger whenever it is runnable, and the clock
\* advances while a timer is pending.
SpecAckFair ==
    /\ SpecAck
    /\ WF_vars(\E remote \in Remotes : Acknowledger(remote) /\ UNCHANGED <<client, wire, app>>)
    /\ WF_vars(TickEstablished /\ UNCHANGED <<client, wire, app>>)

\* The delayed ACK of the socket of r is armed.
AckArmed(r) == established[r] # NoSocket /\ established[r].cb.ack_deadline.some

\* The last step has set the deadline of r anew (an ACK was sent at once for a segment
\* out of order) or has dropped the socket.
AckDeadlineChanged(r) ==
    /\ last.remote = r
    /\ \/ last.op = "established.receive" /\ last.out # NoEntry
       \/ last.op = "drop"

\* C22: once the ack deadline is set to Some(t), send_ack is eventually called, unless
\* the deadline is changed before.
C22_AcknowledgerLiveness ==
    \A r \in Remotes :
        AckArmed(r) ~> \/ last.op = "acknowledger" /\ last.remote = r /\ last.cause = "send_ack"
                       \/ AckDeadlineChanged(r)

\* C22: the acknowledger has sent the delayed ACK of an open connection that has
\* taken all its data, and no deadline is left.
C22_Witness ==
    /\ last.op = "acknowledger"
    /\ last.cause = "send_ack"
    /\ established[last.remote] # NoSocket
    /\ established[last.remote].cb.state = "ESTABLISHED"
    /\ ~established[last.remote].cb.ack_deadline.some
    /\ Received(established[last.remote]) = MaxData

(***************************************************************************)
(* Further properties of the passive socket.                               *)
(***************************************************************************)
\* C23: once the handshake ACK of a remote endpoint has been accepted, the retry task
\* of that endpoint is out of the scheduler, whichever suspension point it was at: it
\* transmits no SYN+ACK and pushes no timeout error without an in-flight entry.
C23_RetryCancelledOnSuccess ==
    /\ [](\A r \in Remotes : Live(tasks[r]) => contains_key(inflight, r))
    /\ [][\A r \in Remotes :
              (/\ last'.op = "receive" /\ last'.remote = r
               /\ last'.cause = "handshake completed")
              => ~Live(tasks'[r])]_vars
    /\ [][\A r \in Remotes :
              (/\ last'.op = "background" /\ last'.remote = r
               /\ last'.cause \in {"transmit", "handshake timeout"})
              => contains_key(inflight, r) /\ Live(tasks[r])]_vars

\* C23: a handshake has completed while its retry task was suspended, and the task
\* has been cancelled.
C23_Witness ==
    /\ last.op = "receive"
    /\ last.cause = "handshake completed"
    /\ tasks[last.remote].pc = "cancelled"
    /\ last.remote \in ReadyRemotes

(***************************************************************************)
(* The RefCell around ReadySockets.  Its flag is 0 when it is not          *)
(* borrowed, n > 0 under n shared borrows and -1 under an exclusive one.   *)
(* Every borrow in receive, poll_accept and background is a temporary of   *)
(* one statement; a borrow outlives a call only as a local of a suspended  *)
(* future.                                                                 *)
(***************************************************************************)
BorrowAbort == -2

\* A faulty variant: the task takes ready.borrow_mut() before the wait and keeps it.
SuspendedBorrow_HeldOverWait(pc) == IF pc = "wait" THEN -1 ELSE 0

\* What the future of background holds of the cell while it is suspended at pc: no
\* guard is among its locals at the ARP query or at the wait.
SuspendedBorrow(pc) == 0

\* The flag of the cell between two calls.
BorrowFlag ==
    LET held == {r \in Remotes : Live(tasks[r]) /\ SuspendedBorrow(tasks[r].pc) # 0}
    IN  IF \E r \in held : SuspendedBorrow(tasks[r].pc) < 0 THEN -1
        ELSE Cardinality(held)

\* The borrows a call makes, in order, each followed by the drop of its guard.
ReadyBorrows(call) ==
    IF call.op = "poll_accept" THEN <<"borrow_mut", "drop">>
    ELSE IF call.op = "background"
    THEN IF call.cause = "handshake timeout" THEN <<"borrow_mut", "drop">> ELSE <<>>
    ELSE IF call.op = "receive"
    THEN <<"borrow", "drop">> \o
         (IF call.cause \in {"handshake completed", "assertion failed"}
          THEN <<"borrow_mut", "drop">>
          ELSE IF call.cause \in {"connection refused", "new connection",
                                  "attempt to add with overflow"}
          THEN <<"borrow", "drop">>
          ELSE <<>>)
    ELSE <<>>

\* RefCell::borrow, RefCell::borrow_mut and the drop of a guard, applied in order.
RECURSIVE RefCellRun(_, _)
RefCellRun(flag, events) ==
    IF events = <<>> \/ flag = BorrowAbort THEN flag
    ELSE LET e == Head(events)
         IN  RefCellRun(
                 IF e = "borrow" THEN (IF flag >= 0 THEN flag + 1 ELSE BorrowAbort)
                 ELSE IF e = "borrow_mut" THEN (IF flag = 0 THEN -1 ELSE BorrowAbort)
                 ELSE IF flag > 0 THEN flag - 1 ELSE 0,
                 Tail(events))

C25_OneOutcomePerHandshake ==
    /\ [][\A r \in Remotes :
              (/\ last'.op = "receive" /\ last'.remote = r
               /\ last'.cause = "handshake completed")
              => tasks[r].pc # "done"]_vars
    /\ [][\A r \in Remotes :
              (/\ last'.op = "background" /\ last'.remote = r
               /\ last'.cause = "handshake timeout")
              => contains_key(inflight, r)]_vars

\* C25: the handshake whose retry task had pushed its timeout error has completed:
\* its control block has been queued as well.
C25_BothOutcomes ==
    /\ last.op = "receive"
    /\ last.cause = "handshake completed"
    /\ tasks[last.remote].pc = "done"
    /\ last.remote \in ReadyRemotes

\* The handshakes that still count: the in-flight entries whose retry task has not
\* pushed its timeout error.
OutstandingHandshakes == {e \in inflight : tasks[e.key].pc # "done"}

\* C26: a handshake that has timed out does not count against max_backlog: a SYN is
\* refused only when the outstanding handshakes and the entries of the ready queue
\* fill the backlog.
C26_BacklogReclaimed ==
    [][\A r \in Remotes :
           (/\ last'.op = "receive" /\ last'.remote = r
            /\ last'.cause = "connection refused")
           => Cardinality(OutstandingHandshakes) + len(ready) >= max_backlog]_vars

\* C26: every handshake has timed out and accept has drained the ready queue, and the
\* SYN of a new remote endpoint has been refused.
C26_RefusedForever ==
    /\ last.op = "receive"
    /\ last.cause = "connection refused"
    /\ ~contains_key(inflight, last.remote)
    /\ OutstandingHandshakes = {}
    /\ len(ready) = 0

\* The errors PassiveSocket::receive returns.
ReceiveErrors == {"EBADMSG", "ECONNREFUSED"}

\* C27: a call of receive that returns an error leaves the in-flight map, the ready
\* queue with its endpoint set and the ISN generator as they were, and spawns or
\* cancels no task.
C27_ErrorsChangeNothing ==
    [][(last'.op = "receive" /\ last'.res \in ReceiveErrors)
       => /\ inflight' = inflight
          /\ ready' = ready
          /\ isn_generator' = isn_generator
          /\ isn_calls' = isn_calls
          /\ \A r \in Remotes : tasks'[r] = tasks[r]]_vars

\* C27: a segment with a wrong ack_num for an in-flight endpoint has been answered
\* with an error while the retry task of the endpoint is suspended.
C27_Witness ==
    /\ last.op = "receive"
    /\ last.res = "EBADMSG"
    /\ last.cause = "invalid SYN+ACK seq num"
    /\ contains_key(inflight, last.remote)
    /\ Live(tasks[last.remote])

\* C28: no call of receive aborts on a window-size expectation, whatever window size
\* and window-scale option the SYN of the handshake carried.
C28_ReceiveNeverAborts ==
    [][last'.op = "receive" => last'.cause # "TODO: Window size overflow"]_vars

\* C28: the handshake ACK of a SYN that carried window scale 16 has been processed:
\* checked_shl has returned None and receive has aborted with the entry in flight.
C28_ShiftAborted ==
    /\ panicked
    /\ last.op = "receive"
    /\ last.cause = "TODO: Window size overflow"
    /\ contains_key(inflight, last.remote)
    /\ get(inflight, last.remote).remote_window_scale = Some(16)

\* The positions of the control blocks in the ready queue.
OkPositions == {i \in DOMAIN ready.ready : ready.ready[i].tag = "Ok"}

\* C29: the ready-endpoint set is exactly the set of remote endpoints of the control
\* blocks in the ready queue, no two of which have the same remote endpoint, and
\* neither the assertion of push_ok nor that of poll fails.
C29_ReadyEndpointsConsistent ==
    /\ ready.endpoints = ReadyRemotes
    /\ \A i, j \in OkPositions :
           ready.ready[i].cb.remote = ready.ready[j].cb.remote => i = j
    /\ last.cause # "assertion failed"

\* C29: accept has taken a control block from the ready queue, and the endpoint of
\* the control block has left the set.
C29_Witness ==
    /\ last.op = "poll_accept"
    /\ last.out.tag = "Ok"
    /\ last.out.cb.remote \notin ready.endpoints
    /\ ~contains_key(inflight, last.out.cb.remote)

(***************************************************************************)
(* A further property of the IPv4 codec.                                   *)
(***************************************************************************)
\* C30: compute_checksum returns a value in 0..0xFFFE for every 20-byte header, so
\* parse never rejects a header written by serialize for a checksum of 0xFFFF.
C30_ChecksumNeverOnes ==
    /\ Len(ip.buf) >= IPV4_HEADER_MIN_SIZE
           => compute_checksum(SubSeq(ip.buf, 1, IPV4_HEADER_MIN_SIZE)) \in 0..65534
    /\ (ip.pc = "done" /\ ip.hdr # NoResult /\ ip.bit = -1)
           => ip.res # Fail("EBADMSG", "IPv4 checksum is 0xFFFF")

\* C30: a header whose words sum to one more than a multiple of 0xffff has been
\* serialized with the largest checksum there is, 0xFFFE, and parsed.
C30_Witness ==
    /\ ip.pc = "done"
    /\ ip.hdr # NoResult
    /\ ip.bit = -1
    /\ ReadU16(ip.buf, 10) = 65534
    /\ ip.res.tag = "Ok"

====
